---- MODULE Spec2Model ----
(***************************************************************************)
(* A model of the reactive core of ily/ori: the callback emitter, the      *)
(* signals built on it, and the ViewState dirty-flag propagation through   *)
(* a tree of Pods.                                                         *)
(***************************************************************************)
EXTENDS Integers, Sequences, FiniteSets, TLC

(***************************************************************************)
(* Bounds of the model.                                                    *)
(***************************************************************************)
NumCallbacks == 2
NumSignals == 1
MaxVal == 1
MaxOwners == 2
MaxRefs == 1
MaxScopes == 1
MaxWrites == 2
NumNodes == 3
MaxBuilds == 3
MaxNesting == 2
NumWindows == 2
MaxSpawns == 3
MaxPad == 2

Callbacks == 1..NumCallbacks
Signals == 1..NumSignals
Values == 0..MaxVal
Owners == 1..MaxOwners
Nodes == 1..NumNodes
WindowIds == 1..NumWindows

VARIABLES
    subs,       \* subs[e]: the keys registered in emitter e (BTreeMap keyed by callback pointer)
    cbAlive,    \* cbAlive[c]: callback c still has a strong owner (Rc strong count > 0)
    value,      \* value[s]: the value in the resource slot of signal s
    resAlive,   \* resAlive[s]: the value slot of s has not been disposed
    emAlive,    \* emAlive[s]: the emitter slot of s has not been disposed
    refs,       \* refs[s]: the reference count kept by Resource::reference
    owner,      \* owner[h]: the signal OwnedSignal handle h holds (0: no handle, -1: dropped)
    scopes,     \* the effect-scope stack: the callback of each active scope, innermost last
    modify,     \* the live Modify accessor: its signal (0: none), value, number of writes
                \* and the callback of the scope it was made in (0: none)
    scen,       \* progress of the run new(0); subscribe(count_calls); set(1); set(1)
    last,       \* the operation performed last, with what it returned and whom it invoked
    parent,     \* parent[n]: the Pod whose content holds Pod n (0: the root context)
    vs,         \* vs[n]: the ViewState of Pod n; vs[0]: the ViewState of the root context
    pass,       \* the lifecycle call performed last, with what the views did during it
    drawRun,    \* progress of the run: a leaf requests a draw; drawn(); an idle draw pass
    activeRun,  \* progress of the run: a node is set active; it is reset; a pass re-runs
    content,    \* the type of the view the leaf Pod holds: "plain", "option" or "result"
    cview,      \* the variant of the view value the leaf Pod was last built or rebuilt with
    cstate,     \* the content State of the leaf Pod: its variant and the build that made it
    builds,     \* the number of calls of the inner view's build so far
    did,        \* what the last rebuild of the leaf Pod's content did
    visits,     \* the Pods the last pass from the root called, in the order of the calls
    shell,      \* the X11 shell: its place in run(), running, and each window's needs_redraw
    susp        \* a Suspense view: its SuspenseState, the id counter and the completion events

emitterVars == <<subs, cbAlive>>
contentVars == <<content, cview, cstate, builds, did>>
appVars == <<shell, susp>>
coreTreeVars == <<parent, vs, pass, drawRun, activeRun, contentVars, visits>>
treeVars == <<coreTreeVars, appVars>>
signalVars == <<value, resAlive, emAlive, refs, owner, scopes, modify, treeVars>>
reactiveVars == <<subs, cbAlive, value, resAlive, emAlive, refs, owner, scopes, modify, scen, last>>
vars == <<subs, cbAlive, value, resAlive, emAlive, refs, owner, scopes, modify, scen, last,
          parent, vs, pass, drawRun, activeRun, content, cview, cstate, builds, did,
          visits, shell, susp>>

(***************************************************************************)
(* Helpers.                                                                *)
(***************************************************************************)
Max(S) == CHOOSE x \in S : \A y \in S : y <= x

Count(seq, x) == Cardinality({i \in 1..Len(seq) : seq[i] = x})

NoOp ==
    [op |-> "none", sig |-> 0, cb |-> 0, arg |-> 0, res |-> "ok", val |-> 0,
     emits |-> 0, log |-> <<>>, skipped |-> {}, added |-> {}, writes |-> 0,
     seen |-> <<>>, dropped |-> {}, calls |-> <<>>, takes |-> <<>>, panicked |-> FALSE]

(***************************************************************************)
(* What the closure of a callback does when it runs.  A closure is an      *)
(* arbitrary FnMut: besides being counted it may subscribe a callback      *)
(* (itself or another) to the emitter that is invoking it, or drop the     *)
(* last strong owner of a callback.                                        *)
(***************************************************************************)
Behaviours ==
    {[kind |-> "count", target |-> 0]}
        \cup {[kind |-> k, target |-> t] : k \in {"subscribe", "drop"}, t \in Callbacks}

CountOnly == [kind |-> "count", target |-> 0]

\* A closure that reads, with try_get, the signal whose emitter invokes it.
ReadBack == [kind |-> "read", target |-> 0]

\* Every closure reads the signal back.
AllRead == [c \in Callbacks |-> ReadBack]

\* The closures' behaviour during one operation: `actor` behaves as b.
OnlyActor(actor, b) == [c \in Callbacks |-> IF c = actor THEN b ELSE CountOnly]

(***************************************************************************)
(* The part of the state an emission threads through the callbacks.        *)
(***************************************************************************)
Heap ==
    [subs |-> subs, alive |-> cbAlive, value |-> value, resAlive |-> resAlive,
     emAlive |-> emAlive, scopes |-> scopes, log |-> <<>>, skipped |-> {}, added |-> {},
     emits |-> 0, seen |-> <<>>, dropped |-> {}]

\* WeakCallback::upgrade: Some iff a strong owner remains.
upgrade(h, c) == h.alive[c]

\* A variant of subscribe_weak that removes a registration it finds.
SubscribeWeakToggles(s, e, c) ==
    [s EXCEPT ![e] = IF c \in @ THEN @ \ {c} ELSE @ \cup {c}]

\* CallbackEmitter::subscribe_weak: insert under the pointer key (overwrites).
subscribe_weak(s, e, c) == [s EXCEPT ![e] = @ \cup {c}]

\* CallbackEmitter::unsubscribe: remove the key, no-op if absent.
unsubscribe(s, e, c) == [s EXCEPT ![e] = @ \ {c}]

\* Callback::emit: run the closure of c, invoked by emitter e, behaving as b.
CallbackEmit(h, e, c, b) ==
    LET h1 == [h EXCEPT !.log = Append(@, c)]
    IN  CASE b.kind = "subscribe" ->
                [h1 EXCEPT !.subs = subscribe_weak(@, e, b.target), !.added = @ \cup {b.target}]
          [] b.kind = "drop"      ->
                [h1 EXCEPT !.alive[b.target] = FALSE,
                           !.dropped = IF h1.alive[b.target] THEN @ \cup {b.target} ELSE @]
          [] b.kind = "read"      ->
                [h1 EXCEPT !.seen = Append(@, IF h1.resAlive[e]
                                              THEN [res |-> "some", val |-> h1.value[e]]
                                              ELSE [res |-> "none", val |-> 0])]
          [] OTHER                -> h1

\* WeakCallback::emit: call the callback if it is alive; is it alive afterwards?
weak_emit(h, e, c, b) ==
    LET h1 == IF upgrade(h, c) THEN CallbackEmit(h, e, c, b) ELSE h
    IN  [h |-> h1, res |-> IF h1.alive[c] THEN "true" ELSE "false", val |-> 0]

\* The body of the loop of CallbackEmitter::emit for one taken entry.
\* A variant that invokes the entry without upgrading it first.
EmitEntryNoUpgrade(h, e, c, b) == CallbackEmit(h, e, c, b)

EmitEntry(h, e, c, b) ==
    IF upgrade(h, c)
    THEN CallbackEmit(h, e, c, b)
    ELSE [h EXCEPT !.skipped = @ \cup {c}]

RECURSIVE EmitLoop(_, _, _, _)
\* The loop of CallbackEmitter::emit over the taken map, in reverse key order.
EmitLoop(h, e, pending, beh) ==
    IF pending = {}
    THEN h
    ELSE LET c == Max(pending)
         IN  EmitLoop(EmitEntry(h, e, c, beh[c]), e, pending \ {c}, beh)

RECURSIVE EmitLive(_, _, _, _)
\* A variant of emit that iterates the live map instead of taking it first.
EmitLive(h, e, done, beh) ==
    LET todo == h.subs[e] \ done
    IN  IF todo = {}
        THEN [h EXCEPT !.subs[e] = {}]
        ELSE LET c == Max(todo)
             IN  EmitLive(EmitEntry(h, e, c, beh[c]), e, done \cup {c}, beh)

EmitNoTake(h, e, beh) == EmitLive(h, e, {}, beh)

\* A variant of emit that iterates a copy of the map and leaves the map as it is.
EmitKeepsRegistrations(h, e, beh) == EmitLoop(h, e, h.subs[e], beh)

\* CallbackEmitter::emit: take the whole map, then invoke the survivors.
emit(h, e, beh) == EmitLoop([h EXCEPT !.subs[e] = {}], e, h.subs[e], beh)

(***************************************************************************)
(* Resource slots (crate::Resource): a value behind a disposable handle.   *)
(***************************************************************************)
\* Resource::get: a clone of the value, None once disposed.
resource_get(h, s) ==
    IF h.resAlive[s] THEN [some |-> TRUE, val |-> h.value[s]] ELSE [some |-> FALSE, val |-> 0]

\* Resource::set: replaces the value; once disposed the value comes back as Err.
resource_set(h, s, v) ==
    IF h.resAlive[s]
    THEN [ok |-> TRUE, val |-> 0, h |-> [h EXCEPT !.value[s] = v]]
    ELSE [ok |-> FALSE, val |-> v, h |-> h]

\* Resource::dispose: marks the slot dead.
dispose(alive, s) == [alive EXCEPT ![s] = FALSE]

\* Resource::reference: bumps the slot's reference count.
reference(r, s) == [r EXCEPT ![s] = @ + 1]

(***************************************************************************)
(* Effect scopes (reactive::effect): a stack of tracking targets.          *)
(***************************************************************************)
\* A variant of track_callback that subscribes the outermost scope's callback.
TrackCallbackOutermost(h, e) ==
    IF Len(h.scopes) = 0
    THEN h
    ELSE [h EXCEPT !.subs = subscribe_weak(@, e, h.scopes[1])]

\* effect::track_callback: subscribe the innermost scope's callback, if any.
track_callback(h, e) ==
    IF Len(h.scopes) = 0
    THEN h
    ELSE [h EXCEPT !.subs = subscribe_weak(@, e, h.scopes[Len(h.scopes)])]

(***************************************************************************)
(* ReadSignal / Signal.  Every operator returns the heap after the call    *)
(* together with the outcome: res is "some"/"none" for an Option, "ok" /   *)
(* "err" for a Result or a plain return, "panic" for a panic.              *)
(***************************************************************************)
Out(h, res, val) == [h |-> h, res |-> res, val |-> val]

\* ReadSignal::try_get
try_get(h, s) ==
    LET r == resource_get(h, s)
    IN  IF r.some THEN Out(h, "some", r.val) ELSE Out(h, "none", 0)

\* A variant of get_untracked that hands out a default instead of panicking.
GetUntrackedDefault(h, s) ==
    LET r == try_get(h, s)
    IN  Out(h, "some", r.val)

\* ReadSignal::get_untracked
get_untracked(h, s) ==
    LET r == try_get(h, s)
    IN  IF r.res = "some" THEN Out(h, "some", r.val) ELSE Out(h, "panic", 0)

\* A variant of track that subscribes nothing.
TrackNothing(h, s) == h

\* ReadSignal::track
track(h, s) == IF h.emAlive[s] THEN track_callback(h, s) ELSE h

\* A variant of get that reads the value without tracking.
GetWithoutTrack(h, s) == get_untracked(h, s)

\* ReadSignal::get
get(h, s) == get_untracked(track(h, s), s)

\* A variant of ReadSignal::subscribe that does not look whether the emitter
\* is still there.
SignalSubscribeUnchecked(h, s, c) == [h EXCEPT !.subs = subscribe_weak(@, s, c)]

\* ReadSignal::subscribe
signal_subscribe(h, s, c) ==
    IF h.emAlive[s] THEN [h EXCEPT !.subs = subscribe_weak(@, s, c)] ELSE h

\* A variant of try_set_untracked that swallows the failure.
TrySetUntrackedSwallow(h, s, v) ==
    LET r == resource_set(h, s, v)
    IN  Out(r.h, "ok", 0)

\* Signal::try_set_untracked
try_set_untracked(h, s, v) ==
    LET r == resource_set(h, s, v)
    IN  IF r.ok THEN Out(r.h, "ok", 0) ELSE Out(r.h, "err", r.val)

\* Signal::set_untracked
set_untracked(h, s, v) ==
    LET r == try_set_untracked(h, s, v)
    IN  IF r.res = "err" THEN Out(r.h, "panic", 0) ELSE r

\* A variant of Signal::emit that emits twice.
SignalEmitTwice(h, s, beh) ==
    IF h.emAlive[s]
    THEN LET h1 == [emit(h, s, beh) EXCEPT !.emits = @ + 1]
         IN  [emit(h1, s, beh) EXCEPT !.emits = @ + 1]
    ELSE h

\* Signal::emit: clear_and_emit on the emitter, if it is still there.
signal_emit(h, s, beh) ==
    IF h.emAlive[s] THEN [emit(h, s, beh) EXCEPT !.emits = @ + 1] ELSE h

\* A variant of try_set that notifies the subscribers before it stores the value.
TrySetEmitsFirst(h, s, v, beh) ==
    LET r == try_set_untracked(signal_emit(h, s, beh), s, v)
    IN  IF r.res = "err" THEN r ELSE Out(r.h, "ok", 0)

\* A variant of try_set that skips the emission when the value is unchanged.
TrySetDedup(h, s, v, beh) ==
    LET r == try_set_untracked(h, s, v)
    IN  IF r.res = "err" THEN r
        ELSE IF h.value[s] = v THEN Out(r.h, "ok", 0)
        ELSE Out(signal_emit(r.h, s, beh), "ok", 0)

\* Signal::try_set
try_set(h, s, v, beh) ==
    LET r == try_set_untracked(h, s, v)
    IN  IF r.res = "err" THEN r ELSE Out(signal_emit(r.h, s, beh), "ok", 0)

\* A variant of set that returns quietly on a disposed signal.
SetQuiet(h, s, v, beh) == [try_set(h, s, v, beh) EXCEPT !.res = "ok"]

\* Signal::set
set(h, s, v, beh) ==
    LET r == try_set(h, s, v, beh)
    IN  IF r.res = "err" THEN Out(r.h, "panic", 0) ELSE r

(***************************************************************************)
(* OwnedSignal                                                             *)
(***************************************************************************)
\* A variant of the drop that forgets to dispose the value slot.
OwnedDropKeepsValue(h, s) == [h EXCEPT !.emAlive = dispose(@, s)]

\* Drop for OwnedSignal: dispose the value slot and the emitter slot.
owned_drop(h, s) == [h EXCEPT !.resAlive = dispose(@, s), !.emAlive = dispose(@, s)]

(***************************************************************************)
(* Modify: the scoped accessor of Signal::modify.                          *)
(***************************************************************************)
NoModify == [sig |-> 0, val |-> 0, writes |-> 0, scope |-> 0]

\* A variant of Modify::drop that writes back only when something was written.
ModifyDropIfDirty(h, m, beh) ==
    IF m.writes = 0 THEN Out(h, "ok", 0) ELSE set(h, m.sig, m.val, beh)

\* Drop for Modify: take the value and set it.
modify_drop(h, m, beh) == set(h, m.sig, m.val, beh)

(***************************************************************************)
(* The run of Scenario A, followed by a monitor: the signal starts at 0,   *)
(* count_calls (callback 1) is subscribed to signal 1, then set(1) twice.  *)
(* Any other operation ends the run ("off").                               *)
(***************************************************************************)
ScenStart == [phase |-> "start", calls |-> 0, resub |-> FALSE]

ScenOff == [phase |-> "off", calls |-> 0, resub |-> FALSE]

ScenStep(sc, l, s2, a2) ==
    CASE sc.phase = "start" /\ l.op = "subscribe" /\ l.sig = 1 /\ l.cb = 1 ->
            [sc EXCEPT !.phase = "subscribed"]
      [] sc.phase = "subscribed" /\ l.op = "set" /\ l.sig = 1 /\ l.arg = 1 /\ l.res = "ok" ->
            [phase |-> "set1", calls |-> sc.calls + Count(l.log, 1),
             resub |-> 1 \in s2[1] /\ a2[1]]
      [] sc.phase = "set1" /\ l.op = "set" /\ l.sig = 1 /\ l.arg = 1 /\ l.res = "ok" ->
            [sc EXCEPT !.phase = "set2", !.calls = @ + Count(l.log, 1)]
      [] OTHER -> ScenOff

\* The monitor of the run follows every operation.
Monitor == scen' = ScenStep(scen, last', subs', cbAlive')

(***************************************************************************)
(* ViewState and the Pod wrapper.                                          *)
(***************************************************************************)
LAYOUT == "LAYOUT"
DRAW == "DRAW"
TREE == "TREE"

\* ViewState::default
ViewStateDefault ==
    [hot |-> FALSE, focused |-> FALSE, active |-> FALSE, has_active |-> FALSE,
     update |-> {LAYOUT, DRAW}, flex |-> 0, size |-> 0, transform |-> 0, depth |-> 0,
     cursor |-> 0]

\* The ViewStates propagate is applied to: any flags, any update set, and
\* the layout fields either all at their defaults (0) or all set (1).
ViewStates ==
    [hot : BOOLEAN, focused : BOOLEAN, active : BOOLEAN, has_active : BOOLEAN,
     update : SUBSET {LAYOUT, DRAW, TREE}, flex : {0, 1}, size : {0, 1},
     transform : {0, 1}, depth : {0, 1}, cursor : {0, 1}]

\* The shapes of the view tree: Pod 1 is the root Pod, every other Pod is held
\* by the content of an earlier one.
Trees == {p \in [Nodes -> 0..NumNodes] : \A n \in Nodes : IF n = 1 THEN p[n] = 0 ELSE p[n] \in 1..(n - 1)}

\* The chain: every Pod holds the next one.
Chain == [n \in Nodes |-> n - 1]

Min(S) == CHOOSE x \in S : \A y \in S : x <= y

Children(n) == {c \in Nodes : parent[c] = n}

RECURSIVE Ancestors(_)
\* The strict ancestors of Pod n, the root context included.
Ancestors(n) == IF n = 0 THEN {} ELSE {parent[n]} \cup Ancestors(parent[n])

RECURSIVE Depth(_)
Depth(n) == IF n = 0 THEN 0 ELSE 1 + Depth(parent[n])

DeepestLeaf(n) == \A m \in Nodes : Depth(m) <= Depth(n)

\* ViewState::prepare
prepare(s) == [s EXCEPT !.has_active = s.active]

\* A variant of layed_out that clears the whole update set.
LayedOutClearsAll(s) == [s EXCEPT !.update = {}]

\* ViewState::layed_out
layed_out(s) == [s EXCEPT !.update = @ \ {LAYOUT}]

\* ViewState::drawn
drawn(s) == [s EXCEPT !.update = @ \ {DRAW}]

\* ViewState::prepare_layout
prepare_layout(s) == layed_out(prepare(s))

\* ViewState::prepare_draw
prepare_draw(s) == drawn(prepare(s))

\* A variant of propagate that forgets the child's update set.
PropagateActiveOnly(v, p, n) == [v EXCEPT ![p].has_active = @ \/ v[n].has_active]

\* A variant of propagate that assigns the child's flags instead of merging them.
PropagateOverwrites(v, p, n) ==
    [v EXCEPT ![p].has_active = v[n].has_active, ![p].update = v[n].update]

\* ViewState::propagate: vs[p] absorbs vs[n].
propagate(v, p, n) ==
    [v EXCEPT ![p].has_active = @ \/ v[n].has_active,
              ![p].update = @ \cup v[n].update]

\* ViewState::set_hot
set_hot(s, h) == [s EXCEPT !.hot = h]

\* ViewState::set_focused
set_focused(s, f) == [s EXCEPT !.focused = f]

\* ViewState::set_active
set_active(s, a) == [s EXCEPT !.active = a, !.has_active = a]

\* A variant of the context's set_hot that requests a draw when the flag changes.
CxSetHotRequestsDraw(s, h) ==
    [s       |-> IF s.hot # h
                 THEN [set_hot(s, h) EXCEPT !.update = @ \cup {DRAW}]
                 ELSE set_hot(s, h),
     updated |-> s.hot # h]

\* set_hot of the contexts: the ViewState it leaves and the value it returns.
cx_set_hot(s, h) == [s |-> set_hot(s, h), updated |-> s.hot # h]

\* set_active of the contexts
cx_set_active(s, a) == [s |-> set_active(s, a), updated |-> s.active # a]

\* request_rebuild / request_layout / request_draw of the contexts
request_rebuild(s) == [s EXCEPT !.update = @ \cup {TREE}]

request_layout(s) == [s EXCEPT !.update = @ \cup {DRAW, LAYOUT}]

request_draw(s) == [s EXCEPT !.update = @ \cup {DRAW}]

\* What the content of one Pod (the actor) does through its context during a
\* pass, before or after it has passed the call on to its children; the
\* content of every other Pod only passes the call on.
ContentOps ==
    {"none", "request_draw", "request_layout", "request_rebuild", "set_active", "clear_active"}

Inputs(ops) == [actor : Nodes, op : ops, when : {"pre", "post"}]

\* The pointer events a Button tells apart: is the pointer over the button,
\* and is the event a press, a release or a mere move.
ButtonOps == {"press", "press_out", "release", "release_out", "move", "leave"}

\* The same pointer events arriving at the Button's own logic already
\* handled, by the Button's content or by a view that saw the event earlier.
HandledOps == {"press_handled", "release_handled", "move_handled", "leave_handled"}

EventHandled(op) == op \in HandledOps

PointerOver(op) ==
    op \in {"press", "release", "move", "press_handled", "release_handled", "move_handled"}

PointerWhat(op) ==
    CASE op \in {"press", "press_out", "press_handled"}       -> "press"
      [] op \in {"release", "release_out", "release_handled"} -> "release"
      [] OTHER                                                 -> "move"

\* Button::event on an unhandled pointer event, after the content's event.
button_event(s, over, what) ==
    LET r  == cx_set_hot(s, over)
        s1 == IF r.updated THEN request_draw(r.s) ELSE r.s
    IN  IF over /\ what = "press"
        THEN request_draw(request_rebuild(cx_set_active(s1, TRUE).s))
        ELSE IF s1.active /\ what = "release"
        THEN request_draw(cx_set_active(s1, FALSE).s)
        ELSE s1

\* A variant of Button::event that does not look at is_handled().
ButtonIgnoresHandled(s, op) ==
    [s        |-> button_event(s, PointerOver(op), PointerWhat(op)),
     on_press |-> PointerOver(op) /\ PointerWhat(op) = "press"]

\* Button::event after the content's event has returned: the ViewState it
\* leaves and whether it has invoked on_press.
button(s, op) ==
    IF EventHandled(op)
    THEN [s |-> s, on_press |-> FALSE]
    ELSE [s        |-> button_event(s, PointerOver(op), PointerWhat(op)),
          on_press |-> PointerOver(op) /\ PointerWhat(op) = "press"]

ContentOp(s, op) ==
    CASE op \in ButtonOps \cup HandledOps -> button(s, op).s
      [] op = "request_draw"    -> request_draw(s)
      [] op = "request_layout"  -> request_layout(s)
      [] op = "request_rebuild" -> request_rebuild(s)
      [] op = "set_active"      -> set_active(s, TRUE)
      [] op = "clear_active"    -> set_active(s, FALSE)
      [] op = "reset"           -> request_layout(ViewStateDefault)
      [] OTHER                  -> s

Own(v, n, in, when) ==
    IF in.actor = n /\ in.when = when THEN [v EXCEPT ![n] = ContentOp(@, in.op)] ELSE v

RECURSIVE Ascending(_)
\* The children of a container in tree order: 0..len.
Ascending(S) == IF S = {} THEN <<>> ELSE <<Min(S)>> \o Ascending(S \ {Min(S)})

\* (0..len).rev()
Reverse(seq) == [i \in 1..Len(seq) |-> seq[Len(seq) + 1 - i]]

\* A variant of the Overlay's loops that dispatches events in tree order.
OverlayAlwaysTreeOrder(kind, S) == Ascending(S)

\* The loops of Overlay::rebuild / event / layout / draw over its children:
\* i in (0..len).rev() for an event, i in 0..len for the others.
overlay_order(kind, S) == IF kind = "event" THEN Reverse(Ascending(S)) ELSE Ascending(S)

RECURSIVE VisitLog(_, _)
RECURSIVE VisitSeq(_, _)
\* The Pods called by a call of the given kind on Pod n, in the order of the calls.
VisitLog(kind, n) == <<n>> \o VisitSeq(kind, overlay_order(kind, Children(n)))

VisitSeq(kind, order) ==
    IF order = <<>> THEN <<>> ELSE VisitLog(kind, Head(order)) \o VisitSeq(kind, Tail(order))

PassKinds == {"rebuild", "event", "layout", "draw"}

RECURSIVE pod_rebuild(_, _, _)
RECURSIVE pod_event(_, _, _)
RECURSIVE pod_layout(_, _, _)
RECURSIVE pod_draw(_, _, _)
RECURSIVE Visit(_, _, _, _)

\* The content of a Pod passes the call on to the Pods it holds, in the
\* order of the container's loop.
Visit(kind, v, order, in) ==
    IF order = <<>>
    THEN v
    ELSE LET c == Head(order)
             v1 == CASE kind = "rebuild" -> pod_rebuild(v, c, in)
                     [] kind = "event"   -> pod_event(v, c, in)
                     [] kind = "layout"  -> pod_layout(v, c, in)
                     [] OTHER            -> pod_draw(v, c, in)
         IN  Visit(kind, v1, Tail(order), in)

\* The content's rebuild / event / layout / draw, run with the Pod's own
\* ViewState as the context's view_state.
Content(kind, v, n, in) ==
    Own(Visit(kind, Own(v, n, in, "pre"), overlay_order(kind, Children(n)), in), n, in, "post")

\* A variant of Pod::event that returns without propagating to the parent.
PodEventNoPropagate(v, n, in) == Content("event", v, n, in)

\* A variant of Pod::rebuild that does not clear TREE.
PodRebuildKeepsTree(v, n, in) ==
    propagate(Content("rebuild", v, n, in), parent[n], n)

\* Pod::rebuild
pod_rebuild(v, n, in) ==
    propagate(Content("rebuild", [v EXCEPT ![n].update = @ \ {TREE}], n, in), parent[n], n)

\* Pod::event
pod_event(v, n, in) ==
    propagate(Content("event", v, n, in), parent[n], n)

\* A variant of Pod::layout that clears LAYOUT after the content's layout.
PodLayoutClearsAfter(v, n, in) ==
    propagate([Content("layout", v, n, in) EXCEPT ![n].update = @ \ {LAYOUT}], parent[n], n)

\* Pod::layout; the size the content returns, whatever it is, is written as 1.
pod_layout(v, n, in) ==
    LET v1 == Content("layout", [v EXCEPT ![n].update = @ \ {LAYOUT}], n, in)
    IN  propagate([v1 EXCEPT ![n].size = 1], parent[n], n)

\* A variant of Pod::draw that does not clear DRAW.
PodDrawNoClear(v, n, in) == propagate(Content("draw", v, n, in), parent[n], n)

\* Pod::draw
pod_draw(v, n, in) ==
    propagate(Content("draw", [v EXCEPT ![n].update = @ \ {DRAW}], n, in), parent[n], n)

NoDid == [built |-> FALSE, rebuilt |-> FALSE]

NoPass ==
    [kind |-> "none", actor |-> 0, op |-> "none", on_press |-> FALSE, ret |-> FALSE,
     arg |-> 0, again |-> FALSE]

\* The value a call of a context's setter returns; in.op is its argument.
SetterReturn(kind, v, in) ==
    CASE kind = "set_hot"    -> cx_set_hot(v[in.actor], in.op = "true").updated
      [] kind = "set_active" -> cx_set_active(v[in.actor], in.op = "true").updated
      [] OTHER               -> FALSE

RunOff == [phase |-> "off", node |-> 0]

\* The run of P4: a draw pass in which only a deepest leaf requests a draw,
\* then drawn() on the root, then a draw pass in which nobody requests anything.
DrawRunStep(r, kind, in) ==
    CASE kind = "draw" /\ in.op = "request_draw" /\ DeepestLeaf(in.actor) ->
            [phase |-> "requested", node |-> in.actor]
      [] kind = "drawn" /\ r.phase = "requested" -> [r EXCEPT !.phase = "drawn"]
      [] kind = "draw" /\ in.op = "none" /\ r.phase = "drawn" -> [r EXCEPT !.phase = "idle"]
      [] OTHER -> RunOff

\* The run of P5: in a tree with nothing active a single node is set active
\* during a pass; later the same node is reset during a pass; then a pass in
\* which nobody does anything re-runs.
ActiveRunStep(r, kind, in) ==
    CASE kind \in {"event", "layout", "draw"} /\ in.op \in {"set_active", "press"}
            /\ \A n \in 0..NumNodes : ~vs[n].active /\ ~vs[n].has_active ->
            [phase |-> "set", node |-> in.actor]
      [] kind \in {"event", "layout", "draw"}
            /\ in.op \in {"clear_active", "release", "release_out"}
            /\ r.phase = "set" /\ r.node = in.actor ->
            [r EXCEPT !.phase = "reset"]
      [] kind \in {"event", "layout", "draw"} /\ in.op = "none"
            /\ r.phase \in {"reset", "rerun"} ->
            [r EXCEPT !.phase = "rerun"]
      [] kind \in {"event", "layout", "draw"} /\ in.op \in {"none", "request_draw"}
            /\ r.phase = "set" ->
            r
      [] OTHER -> RunOff

(***************************************************************************)
(* Actions on a CallbackEmitter.                                           *)
(***************************************************************************)
\* The state after construction, but for the view tree.
\* X11App::run before its loop: init has run, its requests are about to be
\* handled and no window is open yet.  drawn, late and servedLate record
\* which windows were drawn since their last request, which were requested
\* after the last render_windows, and which of those the last one served.
ShellStart ==
    [pc |-> "idled", running |-> TRUE, open |-> {}, needs |-> {}, drawn |-> {},
     late |-> {}, servedLate |-> {}, step |-> "init", req |-> "none", id |-> 0]

None == -1

\* Suspense::build: the first future is spawned with id 0 and the fallback
\* is built.  sent and view describe the SuspenseCompleted command of each
\* spawned future; layout and target record what the last call did.
SuspenseBuilt ==
    [id |-> 0, counter |-> 1, fallback_state |-> TRUE, future |-> None,
     future_state |-> None,
     sent |-> [i \in 0..(MaxSpawns - 1) |-> "pending"],
     view |-> [i \in 0..(MaxSpawns - 1) |-> TRUE],
     step |-> "build", ev |-> None, layout |-> FALSE, target |-> "none"]

StartSignals ==
    /\ subs = [e \in Signals |-> {}]
    /\ cbAlive = [c \in Callbacks |-> TRUE]
    /\ value = [s \in Signals |-> 0]
    /\ resAlive = [s \in Signals |-> TRUE]
    /\ emAlive = [s \in Signals |-> TRUE]
    /\ refs = [s \in Signals |-> 0]
    /\ owner = [h \in Owners |-> IF h \in Signals THEN h ELSE 0]
    /\ scopes = <<>>
    /\ modify = NoModify
    /\ scen = ScenStart
    /\ last = NoOp
    /\ pass = NoPass
    /\ drawRun = RunOff
    /\ activeRun = RunOff
    /\ visits = <<>>
    /\ shell = ShellStart
    /\ susp = SuspenseBuilt

\* The leaf Pod built with a plain view.
StartContent ==
    /\ content = "plain"
    /\ cview = "A"
    /\ cstate = [variant |-> "A", id |-> 1]
    /\ builds = 1
    /\ did = NoDid

StartReactive == StartSignals /\ StartContent

Start == StartReactive /\ vs = [n \in 0..NumNodes |-> ViewStateDefault]

Init == Start /\ parent = Chain

\* CallbackEmitter::subscribe(&callback): needs a strong reference.  The
\* outcome records whether the key is a new registration.
Subscribe(e, c) ==
    /\ cbAlive[c]
    /\ subs' = subscribe_weak(subs, e, c)
    /\ last' = [NoOp EXCEPT !.op = "subscribe", !.sig = e, !.cb = c,
                            !.added = {c} \ subs[e]]
    /\ UNCHANGED <<cbAlive, signalVars>>
    /\ Monitor

\* CallbackEmitter::subscribe_weak with a weak reference whose callback is gone.
SubscribeWeak(e, c) ==
    /\ ~cbAlive[c]
    /\ subs' = subscribe_weak(subs, e, c)
    /\ last' = [NoOp EXCEPT !.op = "subscribe_weak", !.sig = e, !.cb = c]
    /\ UNCHANGED <<cbAlive, signalVars>>
    /\ Monitor

Unsubscribe(e, c) ==
    /\ subs' = unsubscribe(subs, e, c)
    /\ last' = [NoOp EXCEPT !.op = "unsubscribe", !.sig = e, !.cb = c]
    /\ UNCHANGED <<cbAlive, signalVars>>
    /\ Monitor

\* The last strong owner of callback c is dropped.
DropCallback(c) ==
    /\ cbAlive[c]
    /\ \A i \in 1..Len(scopes) : scopes[i] # c
    /\ cbAlive' = [cbAlive EXCEPT ![c] = FALSE]
    /\ last' = [NoOp EXCEPT !.op = "drop_callback", !.cb = c]
    /\ UNCHANGED <<subs, signalVars>>
    /\ Monitor

\* CallbackEmitter::emit called on emitter e, while callback `actor` behaves as b
\* and every other closure only counts its invocation.
Emit(e, actor, b) ==
    /\ LET h == emit(Heap, e, OnlyActor(actor, b))
       IN  /\ subs' = h.subs
           /\ cbAlive' = h.alive
           /\ UNCHANGED signalVars
           /\ last' = [NoOp EXCEPT !.op = "emit", !.sig = e, !.emits = 1,
                                   !.log = h.log, !.skipped = h.skipped,
                                   !.added = h.added, !.dropped = h.dropped]
    /\ Monitor

\* WeakCallback::emit on a weak reference to c, whose closure acts on emitter e.
WeakEmit(e, c, b) ==
    /\ LET r == weak_emit(Heap, e, c, b)
       IN  /\ subs' = r.h.subs
           /\ cbAlive' = r.h.alive
           /\ UNCHANGED signalVars
           /\ last' = [NoOp EXCEPT !.op = "weak_emit", !.sig = e, !.cb = c,
                                   !.res = r.res, !.log = r.h.log, !.added = r.h.added,
                                   !.dropped = r.h.dropped]
    /\ Monitor

\* The closures that can misbehave while emitter e is emitting: one of the
\* registered callbacks does something besides counting, or none does.
EmitterActs(e) ==
    {<<1, CountOnly>>}
        \cup {<<c, b>> : c \in subs[e], b \in Behaviours \ {CountOnly}}

\* The emitter, and the signal, that the single-signal specifications exercise.
Emitters == {1}

Focus == {1}

EmitterNext ==
    \/ \E e \in Emitters, c \in Callbacks : Subscribe(e, c)
    \/ \E e \in Emitters, c \in Callbacks : SubscribeWeak(e, c)
    \/ \E e \in Emitters, c \in Callbacks : Unsubscribe(e, c)
    \/ \E c \in Callbacks : DropCallback(c)
    \/ \E e \in Emitters : \E a \in EmitterActs(e) : Emit(e, a[1], a[2])
    \/ \E e \in Emitters, c \in Callbacks, b \in Behaviours : WeakEmit(e, c, b)

SpecEmitter == Init /\ [][EmitterNext]_vars

(***************************************************************************)
(* Actions on signals.                                                     *)
(***************************************************************************)
Commit(h) ==
    /\ subs' = h.subs
    /\ cbAlive' = h.alive
    /\ value' = h.value
    /\ resAlive' = h.resAlive
    /\ emAlive' = h.emAlive

Result(op, s, c, arg, r) ==
    last' = [op |-> op, sig |-> s, cb |-> c, arg |-> arg, res |-> r.res, val |-> r.val,
             emits |-> r.h.emits, log |-> r.h.log, skipped |-> r.h.skipped,
             added |-> r.h.added, writes |-> 0, seen |-> r.h.seen,
             dropped |-> r.h.dropped, calls |-> <<>>, takes |-> <<>>, panicked |-> FALSE]

TryGet(s) ==
    /\ LET r == try_get(Heap, s)
       IN  Commit(r.h) /\ Result("try_get", s, 0, 0, r) /\ UNCHANGED <<refs, owner, scopes, modify, treeVars>>
    /\ Monitor

GetUntracked(s) ==
    /\ LET r == get_untracked(Heap, s)
       IN  Commit(r.h) /\ Result("get_untracked", s, 0, 0, r)
           /\ UNCHANGED <<refs, owner, scopes, modify, treeVars>>
    /\ Monitor

Get(s) ==
    /\ LET r == get(Heap, s)
       IN  Commit(r.h) /\ Result("get", s, 0, 0, r) /\ UNCHANGED <<refs, owner, scopes, modify, treeVars>>
    /\ Monitor

Track(s) ==
    /\ LET r == Out(track(Heap, s), "ok", 0)
       IN  Commit(r.h) /\ Result("track", s, 0, 0, r) /\ UNCHANGED <<refs, owner, scopes, modify, treeVars>>
    /\ Monitor

SignalSubscribe(s, c) ==
    /\ cbAlive[c]
    /\ LET r == Out(signal_subscribe(Heap, s, c), "ok", 0)
       IN  Commit(r.h) /\ Result("subscribe", s, c, 0, r)
    /\ UNCHANGED <<refs, owner, scopes, modify, treeVars>>
    /\ Monitor

TrySet(s, v, actor, b) ==
    /\ LET r == try_set(Heap, s, v, OnlyActor(actor, b))
       IN  Commit(r.h) /\ Result("try_set", s, 0, v, r)
           /\ UNCHANGED <<refs, owner, scopes, modify, treeVars>>
    /\ Monitor

Set(s, v, actor, b) ==
    /\ LET r == set(Heap, s, v, OnlyActor(actor, b))
       IN  Commit(r.h) /\ Result("set", s, 0, v, r) /\ UNCHANGED <<refs, owner, scopes, modify, treeVars>>
    /\ Monitor

TrySetUntracked(s, v) ==
    /\ LET r == try_set_untracked(Heap, s, v)
       IN  Commit(r.h) /\ Result("try_set_untracked", s, 0, v, r)
           /\ UNCHANGED <<refs, owner, scopes, modify, treeVars>>
    /\ Monitor

SetUntracked(s, v) ==
    /\ LET r == set_untracked(Heap, s, v)
       IN  Commit(r.h) /\ Result("set_untracked", s, 0, v, r)
           /\ UNCHANGED <<refs, owner, scopes, modify, treeVars>>
    /\ Monitor

SignalEmit(s, actor, b) ==
    /\ LET r == Out(signal_emit(Heap, s, OnlyActor(actor, b)), "ok", 0)
       IN  Commit(r.h) /\ Result("signal_emit", s, 0, 0, r)
           /\ UNCHANGED <<refs, owner, scopes, modify, treeVars>>
    /\ Monitor

\* Signal::modify / Modify::new: reads the value with the tracking get.
ModifyNew(s) ==
    /\ modify.sig = 0
    /\ LET r == get(Heap, s)
       IN  /\ Commit(r.h)
           /\ Result("modify", s, 0, 0, r)
           /\ modify' = IF r.res = "some"
                        THEN [sig |-> s, val |-> r.val, writes |-> 0,
                              scope |-> IF Len(scopes) > 0 /\ emAlive[s]
                                        THEN scopes[Len(scopes)] ELSE 0]
                        ELSE NoModify
    /\ UNCHANGED <<refs, owner, scopes, treeVars>>
    /\ Monitor

\* DerefMut for Modify: a mutation through the accessor.
ModifyWrite(v) ==
    /\ modify.sig # 0
    /\ modify.writes < MaxWrites
    /\ modify' = [modify EXCEPT !.val = v, !.writes = @ + 1]
    /\ last' = [NoOp EXCEPT !.op = "modify_write", !.sig = modify.sig, !.arg = v]
    /\ UNCHANGED <<emitterVars, value, resAlive, emAlive, refs, owner, scopes, treeVars>>
    /\ Monitor

ModifyDrop(actor, b) ==
    /\ modify.sig # 0
    /\ LET r == modify_drop(Heap, modify, OnlyActor(actor, b))
       IN  /\ Commit(r.h)
           /\ last' = [op |-> "modify_drop", sig |-> modify.sig, cb |-> modify.scope,
                       arg |-> modify.val, res |-> r.res, val |-> r.val,
                       emits |-> r.h.emits, log |-> r.h.log, skipped |-> r.h.skipped,
                       added |-> r.h.added, writes |-> modify.writes, seen |-> r.h.seen,
                       dropped |-> r.h.dropped, calls |-> <<>>, takes |-> <<>>,
                       panicked |-> FALSE]
    /\ modify' = NoModify
    /\ UNCHANGED <<refs, owner, scopes, treeVars>>
    /\ Monitor

\* Clone for OwnedSignal: reference the signal, copy the handle.
OwnedClone(h, h2) ==
    /\ owner[h] \in Signals
    /\ owner[h2] = 0
    /\ refs[owner[h]] < MaxRefs
    /\ refs' = reference(refs, owner[h])
    /\ owner' = [owner EXCEPT ![h2] = owner[h]]
    /\ last' = [NoOp EXCEPT !.op = "clone", !.sig = owner[h]]
    /\ UNCHANGED <<emitterVars, value, resAlive, emAlive, scopes, modify, treeVars>>
    /\ Monitor

\* OwnedSignal::bind
OwnedBind(h, s) ==
    /\ owner[h] \in Signals
    /\ refs[s] < MaxRefs
    /\ owner' = [owner EXCEPT ![h] = s]
    /\ refs' = reference(refs, s)
    /\ last' = [NoOp EXCEPT !.op = "bind", !.sig = s]
    /\ UNCHANGED <<emitterVars, value, resAlive, emAlive, scopes, modify, treeVars>>
    /\ Monitor

\* Drop for OwnedSignal
OwnedDrop(h) ==
    /\ owner[h] \in Signals
    /\ LET r == Out(owned_drop(Heap, owner[h]), "ok", 0)
       IN  Commit(r.h) /\ Result("owned_drop", owner[h], 0, 0, r)
    /\ owner' = [owner EXCEPT ![h] = 0 - owner[h]]
    /\ UNCHANGED <<refs, scopes, modify, treeVars>>
    /\ Monitor

\* An effect scope is entered with callback c as its tracking target.
PushScopeUpTo(c, depth) ==
    /\ Len(scopes) < depth
    /\ cbAlive[c]
    /\ scopes' = Append(scopes, c)
    /\ last' = [NoOp EXCEPT !.op = "push_scope", !.cb = c]
    /\ UNCHANGED <<emitterVars, value, resAlive, emAlive, refs, owner, modify, treeVars>>
    /\ Monitor

PushScope(c) == PushScopeUpTo(c, MaxScopes)

\* The innermost effect scope is left.
PopScope ==
    /\ Len(scopes) > 0
    /\ scopes' = SubSeq(scopes, 1, Len(scopes) - 1)
    /\ last' = [NoOp EXCEPT !.op = "pop_scope", !.cb = scopes[Len(scopes)]]
    /\ UNCHANGED <<emitterVars, value, resAlive, emAlive, refs, owner, modify, treeVars>>
    /\ Monitor

Acts(s) == IF s \in Signals THEN EmitterActs(s) ELSE {}

(***************************************************************************)
(* Writes, subscriptions and disposal of signals.                          *)
(***************************************************************************)
Next ==
    \/ \E s \in Focus, c \in Callbacks : SignalSubscribe(s, c)
    \/ \E s \in Focus, v \in Values : \E a \in Acts(s) : TrySet(s, v, a[1], a[2])
    \/ \E s \in Focus, v \in Values : \E a \in Acts(s) : Set(s, v, a[1], a[2])
    \/ \E s \in Focus : \E a \in Acts(s) : SignalEmit(s, a[1], a[2])
    \/ \E h \in Owners : OwnedDrop(h)
    \/ \E c \in Callbacks : DropCallback(c)

Spec == Init /\ [][Next]_vars

(***************************************************************************)
(* Writes followed by reads, in the subscribers and in the writer.         *)
(***************************************************************************)
TrySetReading(s, v) ==
    /\ LET r == try_set(Heap, s, v, AllRead)
       IN  Commit(r.h) /\ Result("try_set", s, 0, v, r)
           /\ UNCHANGED <<refs, owner, scopes, modify, treeVars>>
    /\ Monitor

SetReading(s, v) ==
    /\ LET r == set(Heap, s, v, AllRead)
       IN  Commit(r.h) /\ Result("set", s, 0, v, r)
           /\ UNCHANGED <<refs, owner, scopes, modify, treeVars>>
    /\ Monitor

ReadNext ==
    \/ \E s \in Focus, c \in Callbacks : SignalSubscribe(s, c)
    \/ \E s \in Focus, v \in Values : TrySetReading(s, v)
    \/ \E s \in Focus, v \in Values : SetReading(s, v)
    \/ \E s \in Focus, v \in Values : TrySetUntracked(s, v)
    \/ \E s \in Focus, v \in Values : SetUntracked(s, v)
    \/ \E s \in Focus : TryGet(s)
    \/ \E s \in Focus : GetUntracked(s)
    \/ \E h \in Owners : OwnedDrop(h)
    \/ \E c \in Callbacks : DropCallback(c)

SpecRead == Init /\ [][ReadNext]_vars

(***************************************************************************)
(* Operations that meet a disposed signal or a dead callback.              *)
(***************************************************************************)
DeadNext ==
    \/ \E c \in Callbacks : PushScope(c)
    \/ PopScope
    \/ \E s \in Focus : Track(s)
    \/ \E s \in Focus, c \in Callbacks : SignalSubscribe(s, c)
    \/ \E s \in Focus : \E a \in Acts(s) : SignalEmit(s, a[1], a[2])
    \/ \E e \in Emitters, c \in Callbacks : WeakEmit(e, c, CountOnly)
    \/ \E h \in Owners : OwnedDrop(h)
    \/ \E c \in Callbacks : DropCallback(c)

SpecDead == Init /\ [][DeadNext]_vars

(***************************************************************************)
(* Effect scopes entered inside one another.                               *)
(***************************************************************************)
ScopesNext ==
    \/ \E c \in Callbacks : PushScopeUpTo(c, MaxNesting)
    \/ PopScope
    \/ \E s \in Focus : Track(s)
    \/ \E s \in Focus : Get(s)
    \/ \E c \in Callbacks : DropCallback(c)

SpecScopes == Init /\ [][ScopesNext]_vars

(***************************************************************************)
(* Tracked reads inside effect scopes.                                     *)
(***************************************************************************)
TrackNext ==
    \/ \E c \in Callbacks : PushScope(c)
    \/ PopScope
    \/ \E s \in Focus : Track(s)
    \/ \E s \in Focus : Get(s)
    \/ \E s \in Focus, v \in Values : \E a \in Acts(s) : Set(s, v, a[1], a[2])
    \/ \E c \in Callbacks : DropCallback(c)

SpecTrack == Init /\ [][TrackNext]_vars

(***************************************************************************)
(* Owning handles and the operations on a disposed signal.                 *)
(***************************************************************************)
DisposeNext ==
    \/ \E h \in Owners, h2 \in Owners : OwnedClone(h, h2)
    \/ \E h \in Owners, s \in Signals : OwnedBind(h, s)
    \/ \E h \in Owners : OwnedDrop(h)
    \/ \E s \in Focus, c \in Callbacks : SignalSubscribe(s, c)
    \/ \E s \in Focus : TryGet(s)
    \/ \E s \in Focus : GetUntracked(s)
    \/ \E s \in Focus : Get(s)
    \/ \E s \in Focus, v \in Values : TrySet(s, v, 1, CountOnly)
    \/ \E s \in Focus, v \in Values : Set(s, v, 1, CountOnly)
    \/ \E s \in Focus, v \in Values : TrySetUntracked(s, v)
    \/ \E s \in Focus, v \in Values : SetUntracked(s, v)

SpecDispose == Init /\ [][DisposeNext]_vars

(***************************************************************************)
(* The Modify accessor.                                                    *)
(***************************************************************************)
ModifyNext ==
    \/ \E s \in Focus : ModifyNew(s)
    \/ \E v \in Values : ModifyWrite(v)
    \/ \E a \in Acts(modify.sig) : ModifyDrop(a[1], a[2])
    \/ \E s \in Focus, c \in Callbacks : SignalSubscribe(s, c)
    \/ \E h \in Owners : OwnedDrop(h)

SpecModify == Init /\ [][ModifyNext]_vars

\* The accessor made and dropped inside effect scopes.
ModifyScopeNext ==
    \/ \E c \in Callbacks : PushScope(c)
    \/ PopScope
    \/ \E s \in Focus : ModifyNew(s)
    \/ \E a \in Acts(modify.sig) : ModifyDrop(a[1], a[2])
    \/ \E c \in Callbacks : DropCallback(c)

SpecModifyScope == Init /\ [][ModifyScopeNext]_vars

(***************************************************************************)
(* Lifecycle passes over the view tree.                                     *)
(***************************************************************************)
TreeStepCore(kind, in, v) ==
    /\ vs' = v
    /\ pass' = [kind |-> kind, actor |-> in.actor, op |-> in.op,
                on_press |-> /\ kind = "event"
                             /\ in.op \in ButtonOps \cup HandledOps
                             /\ button(vs[in.actor], in.op).on_press,
                ret |-> SetterReturn(kind, vs, in),
                arg |-> IF "arg" \in DOMAIN in THEN in.arg ELSE 0,
                again |-> /\ kind = "pad_layout"
                          /\ pass.kind = kind
                          /\ pass.actor = in.actor
                          /\ pass.arg = in.arg]
    /\ drawRun' = DrawRunStep(drawRun, kind, in)
    /\ activeRun' = ActiveRunStep(activeRun, kind, in)
    /\ visits' = IF kind \in PassKinds THEN VisitLog(kind, 1) ELSE <<>>
    /\ UNCHANGED <<parent, reactiveVars, appVars>>

TreeStep(kind, in, v) == TreeStepCore(kind, in, v) /\ UNCHANGED contentVars

\* The four lifecycle calls on the root Pod, made with the root context.
RootRebuild(in) == TreeStep("rebuild", in, pod_rebuild(vs, 1, in))

RootEvent(in) == TreeStep("event", in, pod_event(vs, 1, in))

RootLayout(in) == TreeStep("layout", in, pod_layout(vs, 1, in))

RootDraw(in) == TreeStep("draw", in, pod_draw(vs, 1, in))

RootIn == [actor |-> 0, op |-> "none", when |-> "pre"]

\* layed_out() and drawn() on the ViewState of the root context.
RootLayedOut == TreeStep("layed_out", RootIn, [vs EXCEPT ![0] = layed_out(@)])

RootDrawn == TreeStep("drawn", RootIn, [vs EXCEPT ![0] = drawn(@)])

\* Relayout and redraw requests through the passes that serve them.
DrawOps == {"none", "request_draw", "request_layout"}

DrawNext ==
    \/ \E in \in Inputs(DrawOps) : RootLayout(in)
    \/ \E in \in Inputs(DrawOps) : RootDraw(in)
    \/ RootLayedOut
    \/ RootDrawn

\* The tree passes start from any shape of the view tree.
InitTree == Start /\ parent \in Trees

SpecDraw == InitTree /\ [][DrawNext]_vars

\* The Pods whose state is held inside the state of Pod n, n included.
Subtree(n) == {m \in Nodes : n \in {m} \cup Ancestors(m)}

\* A variant of Pod::build that keeps the ViewState of the state it replaces.
PodBuildKeepsState(v, n) == v

\* Pod::build: the content's state, and with it the state of every Pod inside
\* the content, is built, then a default ViewState is attached.
pod_build(v, n) == [m \in 0..NumNodes |-> IF m \in Subtree(n) THEN ViewStateDefault ELSE v[m]]

\* A view builds the state of Pod n anew, replacing the state it held.
Build(n) ==
    TreeStep("build", [actor |-> n, op |-> "none", when |-> "pre"], pod_build(vs, n))

\* Containers with several children: the four passes from the root over
\* every shape of the view tree.
OverlayOps == {"none", "request_layout"}

OverlayNext ==
    \/ \E in \in Inputs(OverlayOps) : RootRebuild(in)
    \/ \E in \in Inputs(OverlayOps) : RootEvent(in)
    \/ \E in \in Inputs(OverlayOps) : RootLayout(in)
    \/ \E in \in Inputs(OverlayOps) : RootDraw(in)

SpecOverlay == InitTree /\ [][OverlayNext]_vars

\* Rebuild requests made while handling events, served by the rebuild pass.
RebuildOps == {"none", "request_rebuild"}

RebuildNext ==
    \/ \E in \in Inputs(RebuildOps) : RootEvent(in)
    \/ \E in \in Inputs(RebuildOps) : RootRebuild(in)

SpecRebuild == InitTree /\ [][RebuildNext]_vars

\* A Button at the leaf of a chain of Pods: pointer events dispatched from the
\* root, which the Button's content leaves unhandled, and the rebuild and draw
\* passes the Button requests.
ButtonInputs ==
    {in \in Inputs(ButtonOps \cup {"none"}) : in.when = "post" /\ in.actor = NumNodes}

IdleInputs == {in \in Inputs({"none"}) : in.when = "post"}

ButtonNext ==
    \/ \E in \in ButtonInputs : RootEvent(in)
    \/ \E in \in IdleInputs : RootRebuild(in)
    \/ \E in \in IdleInputs : RootDraw(in)

SpecButton == Init /\ [][ButtonNext]_vars

\* A Button that holds a Pod as its content: pointer events that reach the
\* Button's own logic unhandled or already handled.
HandledInputs ==
    {in \in Inputs(ButtonOps \cup HandledOps \cup {"none"}) :
        in.when = "post" /\ in.actor = NumNodes - 1}

HandledNext ==
    \/ \E in \in HandledInputs : RootEvent(in)
    \/ \E in \in IdleInputs : RootRebuild(in)
    \/ \E in \in IdleInputs : RootDraw(in)

SpecHandled == Init /\ [][HandledNext]_vars

\* A Button at the leaf, its events and the passes it requests, and views
\* that replace the state of a Pod by a newly built one.
BuildNext ==
    \/ \E in \in ButtonInputs : RootEvent(in)
    \/ \E in \in IdleInputs : RootRebuild(in)
    \/ \E in \in IdleInputs : RootLayout(in)
    \/ \E in \in IdleInputs : RootDraw(in)
    \/ \E n \in Nodes : Build(n)

SpecBuild == Init /\ [][BuildNext]_vars

\* propagate applied to a parent and a child ViewState of any content: the
\* root context and the root Pod after any use of their setters.
InitPropagate ==
    /\ StartReactive
    /\ parent = Chain
    /\ \E a, b \in ViewStates :
          /\ \A s \in {a, b} : \A f \in {"flex", "transform", "depth", "cursor"} :
                s[f] = s.size
          /\ vs = [n \in 0..NumNodes |->
                      IF n = 0 THEN a ELSE IF n = 1 THEN b ELSE ViewStateDefault]

Propagate ==
    /\ pass.kind = "none"
    /\ TreeStep("propagate", RootIn, propagate(vs, 0, 1))

SpecPropagate == InitPropagate /\ [][Propagate]_vars

\* The view values a view of each type can be replaced by on a rebuild.
Variants(c) ==
    CASE c = "option" -> {"Some", "None"}
      [] c = "result" -> {"Ok", "Err"}
      [] OTHER        -> {"A", "B"}

NoState == [variant |-> "None", id |-> 0]

\* Option<V>::build, Result<V, E>::build and the build of a plain view: the
\* state of the inner view, if there is one, comes from its build number b + 1.
content_build(c, view, b) ==
    IF view = "None"
    THEN [state |-> NoState, builds |-> b]
    ELSE [state |-> [variant |-> view, id |-> b + 1], builds |-> b + 1]

\* A variant of Option<V>::rebuild that never builds a missing state.
OptionRebuildNoBuild(new, state, old, b) ==
    [state   |-> state,
     builds  |-> b,
     built   |-> FALSE,
     rebuilt |-> new = "Some" /\ old = "Some",
     op      |-> IF (new = "Some") # (old = "Some") THEN "request_layout" ELSE "none"]

\* Option<V>::rebuild.  op is what it does to the ViewState of its context.
option_rebuild(new, state, old, b) ==
    LET built == new = "Some" /\ state = NoState
    IN  [state   |-> IF built THEN [variant |-> "Some", id |-> b + 1] ELSE state,
         builds  |-> IF built THEN b + 1 ELSE b,
         built   |-> built,
         rebuilt |-> new = "Some" /\ old = "Some",
         op      |-> IF (new = "Some") # (old = "Some") THEN "request_layout" ELSE "none"]

\* A variant of Result<V, E>::rebuild that diffs across variants.
ResultRebuildKeepsState(new, state, old, b) ==
    [state |-> state, builds |-> b, built |-> FALSE, rebuilt |-> TRUE, op |-> "none"]

\* A variant of Result<V, E>::rebuild whose fall-through arm resets the
\* ViewState and requests a layout but leaves the state as it was.
ResultRebuildResetsOnly(new, state, old, b) ==
    IF new = state.variant /\ new = old
    THEN [state |-> state, builds |-> b, built |-> FALSE, rebuilt |-> TRUE, op |-> "none"]
    ELSE [state |-> state, builds |-> b, built |-> FALSE, rebuilt |-> FALSE, op |-> "reset"]

\* Result<V, E>::rebuild
result_rebuild(new, state, old, b) ==
    IF new = state.variant /\ new = old
    THEN [state |-> state, builds |-> b, built |-> FALSE, rebuilt |-> TRUE, op |-> "none"]
    ELSE [state |-> [variant |-> new, id |-> b + 1], builds |-> b + 1,
          built |-> TRUE, rebuilt |-> FALSE, op |-> "reset"]

\* A variant of the rebuild of a plain view that builds its state anew.
PlainRebuildBuilds(new, state, old, b) ==
    [state |-> [variant |-> new, id |-> b + 1], builds |-> b + 1,
     built |-> TRUE, rebuilt |-> FALSE, op |-> "none"]

\* The rebuild of a plain view such as Button: it diffs against the old view
\* and keeps its state.
plain_rebuild(new, state, old, b) ==
    [state |-> state, builds |-> b, built |-> FALSE, rebuilt |-> TRUE, op |-> "none"]

content_rebuild(c, new, state, old, b) ==
    CASE c = "option" -> option_rebuild(new, state, old, b)
      [] c = "result" -> result_rebuild(new, state, old, b)
      [] OTHER        -> plain_rebuild(new, state, old, b)

\* The leaf Pod holds a plain view, an Option or a Result, built from any of
\* its variants.
InitContent ==
    /\ StartSignals
    /\ parent = Chain
    /\ vs = [n \in 0..NumNodes |-> ViewStateDefault]
    /\ content \in {"plain", "option", "result"}
    /\ cview \in Variants(content)
    /\ cstate = content_build(content, cview, 0).state
    /\ builds = content_build(content, cview, 0).builds
    /\ did = NoDid

\* A rebuild pass from the root in which the view value of the leaf Pod has
\* been replaced by a new one.
ContentRebuild(new) ==
    LET r  == content_rebuild(content, new, cstate, cview, builds)
        in == [actor |-> NumNodes, op |-> r.op, when |-> "post"]
    IN  /\ r.builds <= MaxBuilds
        /\ TreeStepCore("rebuild", in, pod_rebuild(vs, 1, in))
        /\ cview' = new
        /\ cstate' = r.state
        /\ builds' = r.builds
        /\ did' = [built |-> r.built, rebuilt |-> r.rebuilt]
        /\ UNCHANGED content

\* An event pass: the inner view, a Button, receives a pointer event if the
\* view value has an inner view.
ContentEvent(in) ==
    /\ cview = "None" => in.op = "none"
    /\ RootEvent(in)

ContentNext ==
    \/ \E new \in Variants(content) : ContentRebuild(new)
    \/ \E in \in ButtonInputs : ContentEvent(in)
    \/ \E in \in IdleInputs : RootLayout(in)
    \/ \E in \in IdleInputs : RootDraw(in)

SpecContent == InitContent /\ [][ContentNext]_vars

\* The setters of one ViewState, that of the root Pod, applied in any order
\* to a ViewState of any content.
InitViewState ==
    /\ StartReactive
    /\ parent = Chain
    /\ \E a \in ViewStates :
          /\ \A f \in {"flex", "transform", "depth", "cursor"} : a[f] = a.size
          /\ vs = [n \in 0..NumNodes |-> IF n = 1 THEN a ELSE ViewStateDefault]

SetterIn == [actor |-> 1, op |-> "none", when |-> "pre"]

RequestLayout == TreeStep("request_layout", SetterIn, [vs EXCEPT ![1] = request_layout(@)])

RequestDraw == TreeStep("request_draw", SetterIn, [vs EXCEPT ![1] = request_draw(@)])

LayedOut == TreeStep("layed_out", SetterIn, [vs EXCEPT ![1] = layed_out(@)])

Drawn == TreeStep("drawn", SetterIn, [vs EXCEPT ![1] = drawn(@)])

SetterArg(b) == [actor |-> 1, op |-> IF b THEN "true" ELSE "false", when |-> "pre"]

SetHot(h) == TreeStep("set_hot", SetterArg(h), [vs EXCEPT ![1] = cx_set_hot(@, h).s])

SetActive(a) == TreeStep("set_active", SetterArg(a), [vs EXCEPT ![1] = cx_set_active(@, a).s])

ViewStateNext ==
    \/ RequestLayout
    \/ RequestDraw
    \/ LayedOut
    \/ Drawn
    \/ \E h \in BOOLEAN : SetHot(h)
    \/ \E a \in BOOLEAN : SetActive(a)

SpecViewState == InitViewState /\ [][ViewStateNext]_vars

\* Views becoming active and inactive during event and draw passes.
ActiveOps == {"none", "set_active", "clear_active"}

ActiveNext ==
    \/ \E in \in Inputs(ActiveOps) : RootEvent(in)
    \/ \E in \in Inputs(ActiveOps) : RootDraw(in)
    \/ RootDrawn

SpecActive == InitTree /\ [][ActiveNext]_vars

(***************************************************************************)
(* Properties of the callback emitter.                                     *)
(***************************************************************************)
\* What unsubscribe does, as C2 states it: the key is gone afterwards, and
\* removing an absent key changes nothing.
UnsubscribeRemoves ==
    last'.op = "unsubscribe" =>
        /\ last'.cb \notin subs'[last'.sig]
        /\ last'.cb \notin subs[last'.sig] => (subs' = subs /\ cbAlive' = cbAlive)

\* C2 as stated: an emit invokes exactly once every registered callback that is
\* alive when emit is called, and invokes no other callback (none that was
\* dropped before the emit, none that was unsubscribed before it).
C2_AliveAtCallInvokedOnce ==
    [][/\ last'.op = "emit" =>
            \A c \in Callbacks :
                Count(last'.log, c) =
                    IF c \in subs[last'.sig] /\ cbAlive[c] THEN 1 ELSE 0
       /\ UnsubscribeRemoves]_vars

\* C2, amended: an emit invokes exactly once every registered callback that is
\* still alive when the emission reaches it; a registered callback that is dead
\* by then (dropped before the emit, or by a callback invoked earlier in the
\* same emission) is skipped, and a callback that is not registered (never
\* subscribed, or unsubscribed before the emit) is not invoked.
C2_AliveWhenReachedInvokedOnce ==
    [][/\ last'.op = "emit" =>
            \A c \in Callbacks :
                /\ c \notin subs[last'.sig] => Count(last'.log, c) = 0
                /\ ~cbAlive[c] => Count(last'.log, c) = 0
                /\ c \in subs[last'.sig] =>
                      \/ Count(last'.log, c) = 1 /\ c \notin last'.skipped /\ cbAlive[c]
                      \/ /\ Count(last'.log, c) = 0
                         /\ c \in last'.skipped
                         /\ ~cbAlive'[c]
                         /\ cbAlive[c] => Len(last'.log) > 0
                /\ (c \in subs[last'.sig] /\ cbAlive[c] /\ cbAlive'[c]) =>
                      Count(last'.log, c) = 1
       /\ UnsubscribeRemoves]_vars

\* An emit has invoked one callback and skipped another.
C2_Witness ==
    /\ last.op = "emit"
    /\ Len(last.log) > 0
    /\ last.skipped # {}

\* C3: a subscription made by a callback during an emit (of itself or of
\* another callback) is not delivered by that emit: nobody is invoked twice,
\* nobody outside the taken set is invoked, and the new registration is
\* still in the emitter when the emit returns, for the next emit to deliver.
C3_NoReentrantDelivery ==
    [][last'.op = "emit" =>
          /\ \A c \in Callbacks : Count(last'.log, c) <= 1
          /\ \A c \in Callbacks : c \notin subs[last'.sig] => Count(last'.log, c) = 0
          /\ last'.added \subseteq subs'[last'.sig]
          /\ subs'[last'.sig] = last'.added]_vars

\* An emit during which a callback subscribed a callback that the emit did
\* not invoke, and which is registered afterwards.
C3_Witness ==
    /\ last.op = "emit"
    /\ \E c \in last.added : Count(last.log, c) = 0 /\ c \in subs[last.sig]
    /\ Len(last.log) > 0

(***************************************************************************)
(* Properties of signals.                                                  *)
(***************************************************************************)
\* C1: a set or try_set that succeeds has written the value and has emitted
\* on the signal's emitter exactly once before it returns (the whole
\* registration set of the call was taken and visited); it succeeds exactly
\* when the signal is not disposed; a try_set that returns Err hands the
\* value back, emits nothing and invokes nobody.
C1_SetEmitsOnce ==
    [][last'.op \in {"set", "try_set"} =>
          /\ (last'.res = "ok") <=> resAlive[last'.sig]
          /\ last'.res = "ok" =>
                /\ value'[last'.sig] = last'.arg
                /\ last'.emits = 1
                /\ \A c \in subs[last'.sig] :
                      Count(last'.log, c) + (IF c \in last'.skipped THEN 1 ELSE 0) = 1
                /\ subs'[last'.sig] = last'.added
          /\ (last'.op = "try_set" /\ ~resAlive[last'.sig]) =>
                /\ last'.res = "err"
                /\ last'.val = last'.arg
                /\ last'.emits = 0
                /\ last'.log = <<>>
                /\ value' = value
                /\ subs' = subs]_vars

\* A set has succeeded and its emission has invoked a callback.
C1_Witness ==
    /\ last.op = "set"
    /\ last.res = "ok"
    /\ last.emits = 1
    /\ Len(last.log) > 0

\* C4: a tracked read (get or track) of a live signal made while an effect
\* scope is active registers the callback of the innermost scope, and only
\* it, in the signal's emitter; a read with no scope active registers
\* nothing; a following set invokes exactly once every registered callback
\* that stays alive, and invokes no callback that is not registered.
C4_TrackedReadSubscribesScope ==
    [][/\ last'.op \in {"get", "track"} =>
             subs' = IF Len(scopes) > 0 /\ emAlive[last'.sig]
                     THEN [subs EXCEPT ![last'.sig] = @ \cup {scopes[Len(scopes)]}]
                     ELSE subs
       /\ (last'.op = "set" /\ last'.res = "ok") =>
             \A c \in Callbacks :
                /\ c \notin subs[last'.sig] => Count(last'.log, c) = 0
                /\ (c \in subs[last'.sig] /\ cbAlive'[c]) => Count(last'.log, c) = 1
                /\ Count(last'.log, c) <= 1]_vars

\* A set has invoked the callback of a scope that read the signal.
C4_Witness ==
    /\ last.op = "set"
    /\ last.res = "ok"
    /\ Len(last.log) > 0

\* No OwnedSignal handle holds s any more, and one that did was dropped.
OwnerGone(s) ==
    /\ \E h \in Owners : owner[h] = 0 - s
    /\ \A h \in Owners : owner[h] # s

\* C7: once the OwnedSignal of a signal has been dropped, try_get on a copied
\* handle returns None (no panic, no stale value), and try_set and
\* try_set_untracked return Err carrying the value back, leave the slot as
\* it was and invoke no callback.
C7_DisposedTryOps ==
    [][/\ (last'.op = "try_get" /\ OwnerGone(last'.sig)) => last'.res = "none"
       /\ (last'.op \in {"try_set", "try_set_untracked"} /\ OwnerGone(last'.sig)) =>
             /\ last'.res = "err"
             /\ last'.val = last'.arg
             /\ last'.log = <<>>
             /\ last'.emits = 0
             /\ value' = value
             /\ subs' = subs]_vars

\* A try_set has failed on a signal that still has a live callback registered.
C7_Witness ==
    /\ last.op = "try_set"
    /\ last.res = "err"
    /\ OwnerGone(last.sig)
    /\ \E c \in subs[last.sig] : cbAlive[c]

\* C8: on a disposed signal get, get_untracked, set and set_untracked panic:
\* they return no value, write none, and emit nothing.
C8_DisposedPanics ==
    [][(last'.op \in {"get", "get_untracked", "set", "set_untracked"}
            /\ ~resAlive[last'.sig]) =>
          /\ last'.res = "panic"
          /\ value' = value
          /\ resAlive' = resAlive
          /\ last'.emits = 0
          /\ last'.log = <<>>]_vars

\* A set on a disposed signal has panicked.
C8_Witness ==
    /\ last.op = "set"
    /\ last.res = "panic"
    /\ ~resAlive[last.sig]

\* C9: dropping a Modify accessor of a live signal emits exactly once on the
\* signal, however many writes (none, one, several) went through the
\* accessor, and leaves in the signal the accessor's final value: the value
\* read by modify() or the last value written through the accessor.
C9_ModifyEmitsOnce ==
    [][/\ (last'.op = "modify_drop" /\ resAlive[last'.sig]) =>
             /\ last'.sig = modify.sig
             /\ last'.res = "ok"
             /\ last'.emits = 1
             /\ value'[last'.sig] = modify.val
             /\ last'.writes = modify.writes
             /\ modify' = NoModify
             /\ \A c \in subs[last'.sig] :
                   Count(last'.log, c) + (IF c \in last'.skipped THEN 1 ELSE 0) = 1
       /\ (last'.op = "modify" /\ last'.res = "some") =>
             modify' = [sig |-> last'.sig, val |-> value[last'.sig], writes |-> 0,
                        scope |-> modify'.scope]
       /\ last'.op = "modify_write" =>
             /\ modify'.val = last'.arg
             /\ modify'.writes = modify.writes + 1
             /\ value' = value]_vars

\* A Modify that was written through more than once has been dropped, with
\* one emission that invoked a callback.
C9_Witness ==
    /\ last.op = "modify_drop"
    /\ last.writes >= 2
    /\ last.emits = 1
    /\ Len(last.log) > 0

\* C10 as stated: after new(0), subscribe(count_calls), set(1), set(1),
\* count_calls has been invoked exactly twice.
C10_TwoSetsTwoCalls == scen.phase = "set2" => scen.calls = 2

\* C10, amended: both sets emit (the second one although the value is
\* unchanged), but a registration is consumed by the emission that delivers
\* it: count_calls has been invoked twice if it subscribed itself again
\* while it ran for the first set, and once otherwise.
C10_TwoSetsCallsByResubscription ==
    scen.phase = "set2" =>
        /\ scen.calls = IF scen.resub THEN 2 ELSE 1
        /\ last.emits = 1
        /\ value[1] = 1

\* The run has ended with count_calls re-subscribed by its first invocation.
C10_Witness ==
    /\ scen.phase = "set2"
    /\ scen.resub
    /\ scen.calls = 2


(***************************************************************************)
(* Properties of the view tree.                                            *)
(***************************************************************************)

\* C5: in a tree of Pods of any shape, when only a deepest leaf calls
\* request_draw() during its draw pass, the pass leaves DRAW in the update
\* set of every ancestor of the leaf up to the root; drawn() on the root then
\* clears the root's bit, and a following draw pass in which nobody requests
\* anything leaves the root's bit clear.
C5_LeafDrawReachesRoot ==
    /\ drawRun.phase = "requested" =>
          \A a \in Ancestors(drawRun.node) : DRAW \in vs[a].update
    /\ drawRun.phase = "drawn" => DRAW \notin vs[0].update
    /\ drawRun.phase = "idle" => DRAW \notin vs[0].update

\* The run of C5 has been played to its end with a leaf at least two Pods below the root Pod.
C5_Witness ==
    /\ drawRun.phase = "idle"
    /\ Depth(drawRun.node) >= 3
    /\ pass.kind = "draw"
    /\ DRAW \notin vs[0].update

\* The Pods above Pod n: the strict ancestors whose passes are the Pod
\* wrapper's own.
PodAncestors(n) == Ancestors(n) \cap Nodes

\* C6: setting active on a single descendant makes has_active true on every
\* strict ancestor after the pass, and has_active is false again on every
\* ancestor once the descendant's active is reset and a pass has re-run.
C6_AncestorsFollowActive ==
    /\ activeRun.phase = "set" =>
          \A a \in PodAncestors(activeRun.node) : vs[a].has_active
    /\ activeRun.phase = "rerun" =>
          \A a \in PodAncestors(activeRun.node) : ~vs[a].has_active

\* What the Pods do instead: has_active of the ancestors, once set, stays set
\* after the descendant is reset and passes re-run.
C6_AncestorsStayActive ==
    activeRun.phase \in {"set", "reset", "rerun"} =>
        \A a \in Ancestors(activeRun.node) : vs[a].has_active

\* The run of C6 has been played to its end below another Pod: the node is
\* reset, a pass has re-run, and no node of the tree is active.
C6_Witness ==
    /\ activeRun.phase = "rerun"
    /\ PodAncestors(activeRun.node) # {}
    /\ \A n \in 0..NumNodes : ~vs[n].active
    /\ ~vs[activeRun.node].has_active

\* C11: in a tree root -> container -> leaf whose leaf is a Button, after a
\* press on the leaf is dispatched from the root the root Pod's has_active is
\* true, and after the release on which the leaf resets active is dispatched
\* the root Pod's has_active is false.
C11_PressThenReleaseAtRoot ==
    (DeepestLeaf(activeRun.node) /\ Depth(activeRun.node) >= 3 /\ pass.kind = "event") =>
        /\ (activeRun.phase = "set" /\ pass.op = "press") => vs[1].has_active
        /\ (activeRun.phase = "reset" /\ pass.op \in {"release", "release_out"}) =>
              ~vs[1].has_active

\* What the Pods do on the release: the leaf is no longer active, while the
\* container and the root still report an active descendant.
C11_RootStaysActive ==
    (DeepestLeaf(activeRun.node) /\ Depth(activeRun.node) >= 3
        /\ activeRun.phase = "reset" /\ pass.op \in {"release", "release_out"}) =>
        /\ ~vs[activeRun.node].active
        /\ ~vs[activeRun.node].has_active
        /\ \A a \in Ancestors(activeRun.node) : vs[a].has_active

\* The press and then the release have been dispatched to the leaf of a
\* three-level tree.
C11_Witness ==
    /\ DeepestLeaf(activeRun.node)
    /\ Depth(activeRun.node) >= 3
    /\ activeRun.phase = "reset"
    /\ pass.kind = "event"
    /\ pass.op = "release"
    /\ ~vs[activeRun.node].active

(***************************************************************************)
(* Properties of owning handles.                                           *)
(***************************************************************************)

\* C12: while an owning handle of a signal remains (after a clone, dropping
\* any handle but the last), the signal is alive: its resource and its
\* emitter are disposed only by the drop of the last owning handle.
C12_AliveWhileOwned ==
    \A s \in Signals :
        (\E h \in Owners : owner[h] = s) => (resAlive[s] /\ emAlive[s])

\* What the drop does instead: the drop of any owning handle disposes both
\* slots, whatever the number of handles that remain.
C12_AnyDropDisposes ==
    \A s \in Signals :
        (\E h \in Owners : owner[h] = 0 - s) => (~resAlive[s] /\ ~emAlive[s])

\* One owning handle of a cloned signal has been dropped while another one
\* still holds the signal.
C12_Witness ==
    \E s \in Signals :
        /\ refs[s] > 0
        /\ \E h \in Owners : owner[h] = 0 - s
        /\ \E h \in Owners : owner[h] = s

(***************************************************************************)
(* More properties of the callback emitter.                                *)
(***************************************************************************)

\* C13: emit is single-shot.  It removes every registration present when it
\* is called: when it returns the emitter holds exactly the registrations
\* made during the emission, every callback it invoked was registered when
\* it was called, and so the next emit invokes no callback that has not
\* been subscribed again in between.
C13_EmitIsSingleShot ==
    [][last'.op = "emit" =>
          /\ subs'[last'.sig] = last'.added
          /\ \A i \in 1..Len(last'.log) : last'.log[i] \in subs[last'.sig]
          /\ (last.op = "emit" /\ last.sig = last'.sig) =>
                \A i \in 1..Len(last'.log) : last'.log[i] \in last.added]_vars

\* An emit has invoked two callbacks, one of which subscribed again during
\* the emission: only that registration is left.
C13_Witness ==
    /\ last.op = "emit"
    /\ Len(last.log) >= 2
    /\ last.added # {}
    /\ subs[last.sig] = last.added
    /\ \E i \in 1..Len(last.log) : last.log[i] \notin subs[last.sig]

\* C14: within one emission the callbacks are invoked in LIFO order of
\* subscription: a live callback newly subscribed last, just before the
\* emit, is the first one the emit invokes.
C14_LastSubscribedFirst ==
    [][(last'.op = "emit" /\ last.op = "subscribe" /\ last.sig = last'.sig
            /\ last.added = {last.cb}) =>
          (Len(last'.log) >= 1 /\ last'.log[1] = last.cb)]_vars

\* What the emit does instead: it invokes the callbacks in descending order
\* of their keys (the addresses of the callbacks), whatever the order in
\* which they were subscribed.
C14_DescendingKeyOrder ==
    [][last'.op = "emit" =>
          \A i, j \in 1..Len(last'.log) : i < j => last'.log[i] > last'.log[j]]_vars

\* An emit has invoked two callbacks, so that an order of invocation exists.
C14_Witness ==
    /\ last.op = "emit"
    /\ Len(last.log) >= 2
    /\ last.skipped = {}

(***************************************************************************)
(* More properties of the view tree.                                       *)
(***************************************************************************)

\* C15: in every reachable state of a view tree, has_active of a node is
\* true if and only if the node's own active is true or has_active of a
\* descendant is true.
C15_HasActiveIsAggregate ==
    \A n \in Nodes :
        vs[n].has_active <=> (vs[n].active \/ \E c \in Children(n) : vs[c].has_active)

\* The part of it the Pods do maintain: an active node has has_active set.
C15_ActiveHasActive ==
    \A n \in 0..NumNodes : vs[n].active => vs[n].has_active

\* A pass has completed that left a node below the root Pod active.
C15_Witness ==
    /\ pass.kind = "event"
    /\ \E n \in Nodes : vs[n].active /\ Depth(n) >= 2

\* The ViewState of p has absorbed the ViewState of n.
Absorbed(v, p, n) ==
    /\ v[n].update \subseteq v[p].update
    /\ v[n].has_active => v[p].has_active

\* C16: when Pod::rebuild, Pod::event, Pod::layout or Pod::draw returns, the
\* parent context's ViewState has absorbed the Pod's: every Update bit set
\* on the child is set on the parent, and the parent's has_active is true if
\* the child's is.  For every Pod of the tree, called from any reachable
\* state with any view acting during the call, and for the root Pod after
\* every pass.
C16_ParentAbsorbsOnReturn ==
    /\ \A n \in Nodes : \A in \in Inputs(ContentOps) :
          /\ Absorbed(pod_rebuild(vs, n, in), parent[n], n)
          /\ Absorbed(pod_event(vs, n, in), parent[n], n)
          /\ Absorbed(pod_layout(vs, n, in), parent[n], n)
          /\ Absorbed(pod_draw(vs, n, in), parent[n], n)
    /\ pass.kind \in {"rebuild", "event", "layout", "draw"} => Absorbed(vs, 0, 1)

\* A layout pass in which a view below the root Pod requested a draw has
\* returned, and the request has reached the root context.
C16_Witness ==
    /\ pass.kind = "layout"
    /\ pass.op = "request_draw"
    /\ Depth(pass.actor) >= 2
    /\ vs[pass.actor].update = {DRAW}
    /\ Absorbed(vs, 0, 1)

\* Pod n is the Pod that acted during the last pass, or holds it.
HoldsActor(n) == n = pass.actor \/ n \in Ancestors(pass.actor)

\* C17, as stated: Pod::layout (Pod::draw) clears the Pod's LAYOUT (DRAW) bit
\* after the content's layout (draw) has been performed and before it
\* propagates, so that no Pod is left with the bit when the pass returns.
C17_ClearedAfterContent ==
    /\ pass.kind = "layout" => \A n \in Nodes : LAYOUT \notin vs[n].update
    /\ pass.kind = "draw" => \A n \in Nodes : DRAW \notin vs[n].update

\* C17, as the Pods do it: Pod::layout (Pod::draw) clears the Pod's LAYOUT
\* (DRAW) bit before the content's layout (draw) runs, and so before it
\* propagates: when the pass returns a Pod has the bit exactly if a view of
\* its subtree requested it during the pass.
C17_ClearedBeforeContent ==
    /\ pass.kind = "layout" =>
          \A n \in Nodes :
              LAYOUT \in vs[n].update <=> (pass.op = "request_layout" /\ HoldsActor(n))
    /\ pass.kind = "draw" =>
          \A n \in Nodes :
              DRAW \in vs[n].update <=>
                  (pass.op \in {"request_layout", "request_draw"} /\ HoldsActor(n))

\* A layout pass has returned in which a view below the root Pod requested a
\* layout: the bit is on the view's Pod and on the Pods above, and on no other.
C17_Witness ==
    /\ pass.kind = "layout"
    /\ pass.op = "request_layout"
    /\ Depth(pass.actor) >= 2
    /\ LAYOUT \in vs[pass.actor].update
    /\ \E n \in Nodes : LAYOUT \notin vs[n].update

\* C18: a layout (draw) pass in which no view makes a new LAYOUT (DRAW)
\* request services the pending ones: it leaves the bit on no Pod, and the
\* Pods contribute no such bit to the root context that it did not have.  A
\* request_draw issued during a layout pass is set on the node and on all
\* its ancestors when the pass returns, and stays set on them through later
\* layout passes, until a draw pass services it.
C18_ServicedOrCarriedForward ==
    [][/\ (pass'.kind = "layout" /\ pass'.op # "request_layout") =>
             /\ \A n \in Nodes : LAYOUT \notin vs'[n].update
             /\ LAYOUT \in vs'[0].update => LAYOUT \in vs[0].update
       /\ (pass'.kind = "draw" /\ pass'.op \notin {"request_layout", "request_draw"}) =>
             /\ \A n \in Nodes : DRAW \notin vs'[n].update
             /\ DRAW \in vs'[0].update => DRAW \in vs[0].update
       /\ (pass'.kind = "layout" /\ pass'.op = "request_draw") =>
             \A n \in {pass'.actor} \cup Ancestors(pass'.actor) : DRAW \in vs'[n].update
       /\ pass'.kind \in {"layout", "layed_out"} =>
             \A n \in 0..NumNodes : DRAW \in vs[n].update => DRAW \in vs'[n].update]_vars

\* A layout pass has serviced the pending layout requests of all the Pods
\* while a view below the root Pod requested a draw during it.
C18_Witness ==
    /\ pass.kind = "layout"
    /\ pass.op = "request_draw"
    /\ Depth(pass.actor) >= 2
    /\ \A n \in Nodes : LAYOUT \notin vs[n].update
    /\ \A n \in {pass.actor} \cup Ancestors(pass.actor) : DRAW \in vs[n].update

\* The fields of a ViewState that propagate does not write.
OtherFields ==
    {"hot", "focused", "active", "flex", "size", "transform", "depth", "cursor"}

\* C19: propagate(child) sets the parent's has_active to the OR of both
\* has_active flags and the parent's update set to the union of both update
\* sets; it clears no bit of the parent, and it leaves the child and the
\* parent's hot, focused, active, size, transform, flex and depth unchanged.
C19_PropagateMerges ==
    [][pass'.kind = "propagate" =>
          /\ vs'[0].has_active = (vs[0].has_active \/ vs[1].has_active)
          /\ vs'[0].update = vs[0].update \cup vs[1].update
          /\ vs[0].update \subseteq vs'[0].update
          /\ vs[0].has_active => vs'[0].has_active
          /\ \A f \in OtherFields : vs'[0][f] = vs[0][f]
          /\ \A n \in Nodes : vs'[n] = vs[n]]_vars

\* propagate has been applied to a parent that is hot but not active and a
\* child with has_active set, with different update sets and layout fields.
C19_Witness ==
    /\ pass.kind = "propagate"
    /\ vs[0].hot
    /\ ~vs[0].active
    /\ vs[0].has_active
    /\ vs[1].has_active
    /\ vs[1].update = {LAYOUT}
    /\ vs[0].update = {LAYOUT, TREE}
    /\ vs[0].size # vs[1].size

\* C20: a freshly constructed ViewState, and so the ViewState of every Pod
\* state that Pod::build returns, has LAYOUT and DRAW set (and no other
\* bit), and hot, focused, active and has_active all false.
C20_FreshStateIsDirty ==
    [][pass'.kind = "build" =>
          \A m \in Subtree(pass'.actor) :
              /\ vs'[m].update = {LAYOUT, DRAW}
              /\ ~vs'[m].hot
              /\ ~vs'[m].focused
              /\ ~vs'[m].active
              /\ ~vs'[m].has_active]_vars

\* The state of the leaf Pod has just been built in a tree that had been laid
\* out and drawn and in which the leaf had been pressed: its parent is clean
\* and still has has_active set.
C20_Witness ==
    /\ pass.kind = "build"
    /\ pass.actor = NumNodes
    /\ vs[NumNodes - 1].has_active
    /\ vs[NumNodes - 1].update = {}
    /\ vs[NumNodes].update = {LAYOUT, DRAW}

\* The flags of a ViewState.
Flags == {"hot", "focused", "active", "has_active"}

\* C21: request_layout sets both LAYOUT and DRAW; request_draw sets DRAW and
\* leaves LAYOUT as it was; layed_out clears only LAYOUT and drawn clears only
\* DRAW; none of the four changes hot, active, focused or has_active.
C21_RequestsAndClears ==
    [][/\ pass'.kind = "request_layout" =>
              vs'[1].update = vs[1].update \cup {LAYOUT, DRAW}
       /\ pass'.kind = "request_draw" =>
              /\ DRAW \in vs'[1].update
              /\ (LAYOUT \in vs'[1].update) = (LAYOUT \in vs[1].update)
              /\ vs'[1].update = vs[1].update \cup {DRAW}
       /\ pass'.kind = "layed_out" => vs'[1].update = vs[1].update \ {LAYOUT}
       /\ pass'.kind = "drawn" => vs'[1].update = vs[1].update \ {DRAW}
       /\ pass'.kind \in {"request_layout", "request_draw", "layed_out", "drawn"} =>
              \A f \in Flags : vs'[1][f] = vs[1][f]]_vars

\* layed_out has been applied to a hot, active ViewState and has left DRAW
\* and TREE set.
C21_Witness ==
    /\ pass.kind = "layed_out"
    /\ vs[1].update = {DRAW, TREE}
    /\ vs[1].hot
    /\ vs[1].active

(***************************************************************************)
(* Properties of the content state across rebuilds.                        *)
(***************************************************************************)
\* The fields of a node that a rebuild is expected to keep.
Persistent == {"hot", "active", "focused", "size", "transform"}

\* C22 (as stated): over any sequence of rebuilds in which the view value is replaced,
\* the content State of the node stays the one that build created, and the
\* node's hot, active, focused, size and transform are not reset.
C22_StateOutlivesView ==
    [][pass'.kind = "rebuild" =>
          /\ cstate # NoState => cstate' = cstate
          /\ \A f \in Persistent : vs'[NumNodes][f] = vs[NumNodes][f]]_vars

\* C22 (amended): a rebuild keeps the content State and the node's hot,
\* active, focused, size and transform unless the content is a Result whose
\* variant has changed.
C22_SurvivesSameVariant ==
    [][(pass'.kind = "rebuild" /\ ~(content = "result" /\ cview' # cview)) =>
          /\ cstate # NoState => cstate' = cstate
          /\ \A f \in Persistent : vs'[NumNodes][f] = vs[NumNodes][f]]_vars

\* A Result held by a node that was pressed and laid out has been rebuilt
\* with the other variant: the node is no longer active, its size is the
\* default again, and its parent still has has_active set.
C22_Witness ==
    /\ pass.kind = "rebuild"
    /\ content = "result"
    /\ did.built
    /\ vs[NumNodes - 1].has_active
    /\ vs[NumNodes - 1].size = 1
    /\ ~vs[NumNodes].active
    /\ vs[NumNodes].size = 0

\* C23: for an Option, whenever a rebuild's new view has a different variant
\* from the old one, the old state is discarded, the state of the new variant
\* comes from a fresh build (never carried over from an earlier Some), and a
\* layout is requested.
C23_OptionMismatchBuildsFresh ==
    [][(pass'.kind = "rebuild" /\ content = "option" /\ cview' # cview) =>
          /\ cview' = "None" => cstate' = NoState
          /\ cview' = "Some" =>
                /\ did'.built
                /\ builds' = builds + 1
                /\ cstate' = [variant |-> "Some", id |-> builds']
          /\ LAYOUT \in vs'[NumNodes].update]_vars

\* What holds for an Option: a variant change always requests a layout, and
\* a state that exists is never replaced.
C23_OptionKeepsState ==
    [][(pass'.kind = "rebuild" /\ content = "option") =>
          /\ cview' # cview => LAYOUT \in vs'[NumNodes].update
          /\ cstate # NoState => cstate' = cstate]_vars

\* An Option has been rebuilt from None to Some and its state is the one made
\* by the first build, neither built anew nor diffed against an old view.
C23_Witness ==
    /\ pass.kind = "rebuild"
    /\ content = "option"
    /\ cview = "Some"
    /\ pass.op = "request_layout"
    /\ ~did.built
    /\ ~did.rebuilt
    /\ cstate = [variant |-> "Some", id |-> 1]

\* C24: for a Result, whenever a rebuild's new view has a different variant
\* from the old one, the old state is discarded and replaced by a fresh build
\* of the new variant, no diff against the old view is run, and a layout is
\* requested.
C24_ResultMismatchBuildsFresh ==
    [][(pass'.kind = "rebuild" /\ content = "result" /\ cview' # cview) =>
          /\ did'.built
          /\ ~did'.rebuilt
          /\ builds' = builds + 1
          /\ cstate' = [variant |-> cview', id |-> builds']
          /\ cstate'.id # cstate.id
          /\ LAYOUT \in vs'[NumNodes].update]_vars

\* A Result has changed its variant twice: Ok, Err, Ok or Err, Ok, Err.
C24_Witness ==
    /\ pass.kind = "rebuild"
    /\ content = "result"
    /\ did.built
    /\ cstate.id = 3

(***************************************************************************)
(* Properties of reads that follow a write.                                *)
(***************************************************************************)
WriteOps == {"set", "try_set", "set_untracked", "try_set_untracked"}

ReadOps == {"try_get", "get_untracked"}

\* C25: a read that directly follows a successful write of the same signal
\* observes the written value, and every callback that set(v) or try_set(v)
\* invokes and that reads the signal observes v.
C25_ReadSeesWrite ==
    [][/\ (last'.op \in ReadOps /\ last.op \in WriteOps /\ last.res = "ok"
             /\ last'.sig = last.sig) =>
              /\ last'.res = "some"
              /\ last'.val = last.arg
       /\ (last'.op \in {"set", "try_set"} /\ last'.res = "ok") =>
              /\ Len(last'.seen) = Len(last'.log)
              /\ \A i \in 1..Len(last'.seen) :
                    last'.seen[i] = [res |-> "some", val |-> last'.arg]]_vars

\* set(MaxVal) has invoked two callbacks and both have read the signal.
C25_Witness ==
    /\ last.op = "set"
    /\ last.arg = MaxVal
    /\ Len(last.seen) >= 2
    /\ last.seen[1].val = MaxVal

\* A read has directly followed a successful untracked write of MaxVal.
C25_WitnessRead ==
    /\ last.op = "try_get"
    /\ last.res = "some"
    /\ last.val = MaxVal

(***************************************************************************)
(* Properties of containers with several children.                         *)
(***************************************************************************)
Pos(seq, x) == CHOOSE i \in 1..Len(seq) : seq[i] = x

Siblings == {ab \in Nodes \X Nodes : ab[1] < ab[2] /\ parent[ab[1]] = parent[ab[2]]}

\* C26: a container with several children dispatches an event to them in
\* reverse tree order and performs rebuild, layout and draw over them in tree
\* order; each child is visited exactly once per pass.
C26_SiblingOrder ==
    pass.kind \in PassKinds =>
        /\ \A n \in Nodes : Count(visits, n) = 1
        /\ \A ab \in Siblings :
              IF pass.kind = "event"
              THEN Pos(visits, ab[2]) < Pos(visits, ab[1])
              ELSE Pos(visits, ab[1]) < Pos(visits, ab[2])

\* An event pass has gone through a container with two children.
C26_Witness ==
    /\ pass.kind = "event"
    /\ \E ab \in Siblings : Pos(visits, ab[2]) < Pos(visits, ab[1])

(***************************************************************************)
(* Properties of handled events.                                           *)
(***************************************************************************)
\* C27: a Button always passes the event on to its content, and for an event
\* that is already handled when its own logic runs it does not invoke
\* on_press, changes neither hot nor active and requests neither a rebuild
\* nor a draw.
C27_HandledIsIgnored ==
    [][(pass'.kind = "event" /\ pass'.op \in ButtonOps \cup HandledOps) =>
          /\ \A c \in Children(pass'.actor) : Count(visits', c) = 1
          /\ pass'.op \in HandledOps =>
                /\ ~pass'.on_press
                /\ vs'[pass'.actor].hot = vs[pass'.actor].hot
                /\ vs'[pass'.actor].active = vs[pass'.actor].active
                /\ \A n \in 0..NumNodes : vs'[n].update = vs[n].update]_vars

\* A release over an active, hot Button whose draw request has been served
\* has arrived handled: the Button is still active and nothing is requested.
C27_Witness ==
    /\ pass.kind = "event"
    /\ pass.op = "release_handled"
    /\ vs[pass.actor].active
    /\ vs[pass.actor].hot
    /\ vs[pass.actor].update = {LAYOUT}
    /\ Children(pass.actor) # {}

(***************************************************************************)
(* Properties of the contexts' setters.                                    *)
(***************************************************************************)
\* C28: set_hot(v) and set_active(v) return true exactly when the stored flag
\* differed from v before the call, store v, and set no bit of the update set.
C28_SettersReportChange ==
    [][/\ pass'.kind = "set_hot" =>
              /\ pass'.ret = (vs[1].hot # (pass'.op = "true"))
              /\ vs'[1].hot = (pass'.op = "true")
       /\ pass'.kind = "set_active" =>
              /\ pass'.ret = (vs[1].active # (pass'.op = "true"))
              /\ vs'[1].active = (pass'.op = "true")
       /\ pass'.kind \in {"set_hot", "set_active"} =>
              \A n \in 0..NumNodes : vs'[n].update = vs[n].update]_vars

\* set_active(false) on an active ViewState with an empty update set has
\* returned true and the update set is still empty.
C28_Witness ==
    /\ pass.kind = "set_active"
    /\ pass.op = "false"
    /\ pass.ret
    /\ ~vs[1].active
    /\ vs[1].update = {}

(***************************************************************************)
(* Properties of repeated subscription.                                    *)
(***************************************************************************)
\* C29: subscribing a callback leaves exactly one registration for it, so
\* subscribing one that is already registered leaves the emitter as it was
\* (same len), and the next emit invokes every registered callback it does
\* not find dead exactly once.
C29_SubscribeIdempotent ==
    [][/\ last'.op \in {"subscribe", "subscribe_weak"} =>
              /\ subs'[last'.sig] = subs[last'.sig] \cup {last'.cb}
              /\ last'.cb \in subs[last'.sig] =>
                    Cardinality(subs'[last'.sig]) = Cardinality(subs[last'.sig])
       /\ last'.op = "emit" =>
              /\ \A c \in Callbacks : Count(last'.log, c) <= 1
              /\ \A c \in subs[last'.sig] :
                    Count(last'.log, c) = IF c \in last'.skipped THEN 0 ELSE 1]_vars

\* A callback that was already registered has been subscribed again, and it
\* is the only registration of the emitter.
C29_Witness ==
    /\ last.op = "subscribe"
    /\ last.added = {}
    /\ subs[last.sig] = {last.cb}

(***************************************************************************)
(* Properties of dead references.                                          *)
(***************************************************************************)
\* C30: dead references make an operation a no-op and never a panic: track,
\* subscribe and emit on a disposed signal change nothing and invoke nobody;
\* upgrading a callback without an owner gives None, so WeakCallback::emit
\* invokes nothing; and an emission skips, without invoking it, every entry
\* that is dead when its turn comes, also one whose last owner an earlier
\* callback of the same emission has dropped.
C30_DeadReferencesAreNoOps ==
    [][/\ (last'.op \in {"track", "subscribe", "signal_emit"} /\ ~emAlive[last'.sig]) =>
              /\ last'.res = "ok"
              /\ last'.log = <<>>
              /\ last'.emits = 0
              /\ subs' = subs
              /\ cbAlive' = cbAlive
              /\ value' = value
       /\ (last'.op = "weak_emit" /\ ~cbAlive[last'.cb]) =>
              /\ last'.res = "false"
              /\ last'.log = <<>>
              /\ subs' = subs
       /\ last'.op = "signal_emit" =>
              /\ last'.res = "ok"
              /\ \A c \in last'.skipped : Count(last'.log, c) = 0 /\ ~cbAlive'[c]
              /\ \A c \in subs[last'.sig] : ~cbAlive[c] => Count(last'.log, c) = 0
              /\ emAlive[last'.sig] =>
                    \A c \in subs[last'.sig] :
                        (c \in last'.skipped) # (Count(last'.log, c) = 1)]_vars

\* An emission has invoked a callback that dropped the last owner of another
\* registered callback, and has skipped that one.
C30_Witness ==
    /\ last.op = "signal_emit"
    /\ Len(last.log) >= 1
    /\ last.skipped \cap last.dropped # {}

\* A subscribe has met a disposed signal while the callback was alive.
C30_WitnessDisposed ==
    /\ last.op = "subscribe"
    /\ ~emAlive[last.sig]
    /\ cbAlive[last.cb]
    /\ last.cb \notin subs[last.sig]

(***************************************************************************)
(* Properties of nested effect scopes.                                     *)
(***************************************************************************)
\* C31: effect scopes form a stack: track subscribes the callback of the
\* innermost active scope and no other; leaving a scope removes the innermost
\* one, so the enclosing scope is the target again; entering pushes exactly
\* one; and with no scope active track subscribes nothing.
C31_ScopesFormAStack ==
    [][/\ last'.op \in {"track", "get"} =>
              /\ scopes' = scopes
              /\ subs' = IF Len(scopes) > 0 /\ emAlive[last'.sig]
                         THEN [subs EXCEPT ![last'.sig] = @ \cup {scopes[Len(scopes)]}]
                         ELSE subs
       /\ last'.op = "push_scope" => scopes' = Append(scopes, last'.cb)
       /\ last'.op = "pop_scope" =>
              /\ Len(scopes) > 0
              /\ last'.cb = scopes[Len(scopes)]
              /\ scopes' = SubSeq(scopes, 1, Len(scopes) - 1)
              /\ subs' = subs]_vars

\* A track made inside two nested scopes with different callbacks has
\* subscribed the inner one only.
C31_Witness ==
    /\ last.op = "track"
    /\ Len(scopes) = 2
    /\ scopes[1] # scopes[2]
    /\ subs[last.sig] = {scopes[2]}

(***************************************************************************)
(* The shell main loop (X11App::run).                                      *)
(***************************************************************************)
Requests ==
    [kind : {"OpenWindow", "CloseWindow", "RequestRedraw"}, id : WindowIds]
        \cup {[kind |-> "Quit", id |-> 0]}

\* X11App::needs_redraw: some window has its flag set.
needs_redraw(sh) == sh.needs # {}

\* X11App::open_window: the new window starts with needs_redraw set.
open_window(sh, id) ==
    [sh EXCEPT !.open = @ \cup {id}, !.needs = @ \cup {id}, !.drawn = @ \ {id}]

\* X11App::close_window: the window and its flag are removed, if it is known.
close_window(sh, id) ==
    [sh EXCEPT !.open = @ \ {id}, !.needs = @ \ {id}, !.drawn = @ \ {id},
               !.late = @ \ {id}]

\* X11App::request_redraw: set the flag of the window with this id, if any.
request_redraw(sh, id) ==
    IF id \in sh.open
    THEN [sh EXCEPT !.needs = @ \cup {id}, !.drawn = @ \ {id},
                    !.late = IF sh.pc = "events" THEN @ ELSE @ \cup {id}]
    ELSE sh

\* A variant of render_windows that clears every flag but draws one window.
RenderOneWindow(sh) ==
    [sh EXCEPT !.needs = {},
               !.drawn = @ \cup (IF sh.needs = {} THEN {} ELSE {Min(sh.needs)}),
               !.servedLate = sh.late \cap sh.needs,
               !.late = {}]

\* X11App::render_windows: each window whose flag is set has it cleared and
\* is then drawn; the others are skipped.
render_windows(sh) ==
    [sh EXCEPT !.needs = {},
               !.drawn = @ \cup sh.needs,
               !.servedLate = sh.late \cap sh.needs,
               !.late = {}]

\* X11App::handle_app_request.
handle_app_request(sh, r) ==
    CASE r.kind = "OpenWindow" -> IF r.id \in sh.open THEN sh ELSE open_window(sh, r.id)
      [] r.kind = "CloseWindow" -> close_window(sh, r.id)
      [] r.kind = "RequestRedraw" -> request_redraw(sh, r.id)
      [] r.kind = "Quit" -> [sh EXCEPT !.running = FALSE]

ShellStep(sh, step, r) ==
    /\ shell' = [sh EXCEPT !.step = step, !.req = r.kind, !.id = r.id]
    /\ UNCHANGED <<reactiveVars, coreTreeVars, susp>>

NoRequest == [kind |-> "none", id |-> 0]

\* handle_app_requests: one of the requests the application has queued, at
\* any of the places run() handles them.
ShellRequest(r) ==
    /\ shell.pc \in {"events", "rendered", "idled"}
    /\ ShellStep(handle_app_request(shell, r), "request", r)

\* handle_event with an Expose event of a known window.
ShellExpose(w) ==
    /\ shell.pc = "events"
    /\ w \in shell.open
    /\ ShellStep([shell EXCEPT !.needs = @ \cup {w}, !.drawn = @ \ {w}], "expose",
                 [kind |-> "none", id |-> w])

\* The receive at the head of the loop: try_recv when a window needs a
\* redraw, else recv_timeout, which gives an event or times out.
ShellPoll ==
    /\ shell.pc = "head"
    /\ ShellStep([shell EXCEPT !.pc = "events"], "poll", NoRequest)

\* recv_timeout finds the channel disconnected: the loop is left.
ShellDisconnected ==
    /\ shell.pc = "head"
    /\ ~needs_redraw(shell)
    /\ ShellStep([shell EXCEPT !.pc = "stopped"], "disconnected", NoRequest)

ShellRender ==
    /\ shell.pc = "events"
    /\ ShellStep([render_windows(shell) EXCEPT !.pc = "rendered"], "render", NoRequest)

ShellIdle ==
    /\ shell.pc = "rendered"
    /\ ShellStep([shell EXCEPT !.pc = "idled"], "idle", NoRequest)

\* while self.running
ShellLoop ==
    /\ shell.pc = "idled"
    /\ ShellStep([shell EXCEPT !.pc = IF shell.running THEN "head" ELSE "stopped"],
                 "loop", NoRequest)

ShellNext ==
    \/ \E r \in Requests : ShellRequest(r)
    \/ \E w \in WindowIds : ShellExpose(w)
    \/ ShellPoll
    \/ ShellDisconnected
    \/ ShellRender
    \/ ShellIdle
    \/ ShellLoop

\* run() is sequential code: when it is not waiting for something it takes
\* its next step; the event queue is drained and recv_timeout returns.
ShellFair ==
    /\ WF_vars(ShellPoll)
    /\ WF_vars(ShellRender)
    /\ WF_vars(ShellIdle)
    /\ WF_vars(ShellLoop)

SpecShell == Init /\ [][ShellNext]_vars /\ ShellFair

\* RequestRedraw(w) has just been handled and w is an open window.
RedrawRequested(w) ==
    /\ shell.step = "request"
    /\ shell.req = "RequestRedraw"
    /\ shell.id = w
    /\ w \in shell.open

SpawnIds == 0..(MaxSpawns - 1)

\* spawn: the future gets the id in the context counter, which is then
\* incremented; its SuspenseCompleted command will carry that id.
spawn(s) == [s EXCEPT !.id = s.counter, !.counter = @ + 1]

\* The match that event, layout and draw end with.
suspense_target(s) ==
    IF ~s.fallback_state /\ s.future # None /\ s.future_state # None
    THEN "future"
    ELSE IF s.fallback_state THEN "fallback" ELSE "none"

\* Suspense::rebuild: a new future is spawned; the fallback is rebuilt when
\* there is a fallback state and no future state.
suspense_rebuild(s) ==
    [spawn(s) EXCEPT !.step = "rebuild", !.ev = None, !.layout = FALSE,
                     !.target = IF s.fallback_state /\ s.future_state = None
                                THEN "fallback" ELSE "none"]

\* A variant of the completion handling that does not compare ids.
SuspenseCompletedAnyId(s, i) ==
    LET applied == [s EXCEPT !.future_state = IF s.view[i] THEN i ELSE None,
                             !.future = IF s.view[i] THEN i ELSE None,
                             !.view[i] = FALSE,
                             !.fallback_state = FALSE,
                             !.layout = TRUE]
    IN  [applied EXCEPT !.target = suspense_target(applied)]

\* Suspense::event with the SuspenseCompleted command of future i: nothing
\* when the id differs; else the view is taken out of the command, built
\* and stored, the fallback state is dropped and a layout is requested, and
\* the event goes on to the match.
suspense_completed(s, i) ==
    IF i # s.id
    THEN [s EXCEPT !.layout = FALSE, !.target = "none"]
    ELSE LET applied == [s EXCEPT !.future_state = IF s.view[i] THEN i ELSE None,
                                  !.future = IF s.view[i] THEN i ELSE None,
                                  !.view[i] = FALSE,
                                  !.fallback_state = FALSE,
                                  !.layout = TRUE]
         IN  [applied EXCEPT !.target = suspense_target(applied)]

SuspenseStep(s) ==
    /\ susp' = s
    /\ UNCHANGED <<reactiveVars, coreTreeVars, shell>>

SuspenseRebuild ==
    /\ susp.counter < MaxSpawns
    /\ SuspenseStep(suspense_rebuild(susp))

\* The executor finishes future i and queues its SuspenseCompleted command.
SuspenseComplete(i) ==
    /\ i < susp.counter
    /\ susp.sent[i] = "pending"
    /\ SuspenseStep([susp EXCEPT !.sent[i] = "queued", !.step = "resolve", !.ev = i,
                                 !.layout = FALSE, !.target = "none"])

\* The queued command of future i is delivered as an event.
SuspenseDeliver(i) ==
    /\ susp.sent[i] = "queued"
    /\ SuspenseStep([suspense_completed(susp, i) EXCEPT
                         !.sent[i] = "delivered", !.step = "completed", !.ev = i])

\* The command of future i is delivered once more.
SuspenseRedeliver(i) ==
    /\ susp.sent[i] = "delivered"
    /\ SuspenseStep([suspense_completed(susp, i) EXCEPT !.step = "redelivered", !.ev = i])

\* Suspense::event with any other event, Suspense::layout and Suspense::draw.
SuspenseCall(kind) ==
    SuspenseStep([susp EXCEPT !.step = kind, !.ev = None, !.layout = FALSE,
                              !.target = suspense_target(susp)])

SuspenseNext ==
    \/ SuspenseRebuild
    \/ \E i \in SpawnIds : SuspenseComplete(i)
    \/ \E i \in SpawnIds : SuspenseDeliver(i)
    \/ \E kind \in {"event", "layout", "draw"} : SuspenseCall(kind)

SpecSuspense == Init /\ [][SuspenseNext]_vars

SuspenseRepeatNext ==
    \/ SuspenseNext
    \/ \E i \in SpawnIds : SuspenseRedeliver(i)

SpecSuspenseRepeat == Init /\ [][SuspenseRepeatNext]_vars

\* C33: a completion event whose id is not the id of the latest spawn leaves
\* fallback_state, future and future_state as they are and requests no
\* layout; one with that id builds the completed view, drops the fallback
\* state and requests a layout, and from then on event, layout and draw go
\* to the completed view.
C33_OnlyLatestCompletionApplies ==
    [][/\ (susp'.step = "completed" /\ susp'.ev # susp.id) =>
              /\ susp'.fallback_state = susp.fallback_state
              /\ susp'.future = susp.future
              /\ susp'.future_state = susp.future_state
              /\ susp'.id = susp.id
              /\ ~susp'.layout
              /\ susp'.target = "none"
       /\ (susp'.step = "completed" /\ susp'.ev = susp.id) =>
              /\ susp'.future = susp.id
              /\ susp'.future_state = susp.id
              /\ ~susp'.fallback_state
              /\ susp'.layout
              /\ susp'.target = "future"
       /\ (susp'.step \in {"event", "layout", "draw"} /\ ~susp.fallback_state) =>
              susp'.target = "future"]_vars

\* The completion of the first future arrived after a rebuild and was
\* ignored, and the completion of the latest future has been applied.
C33_Witness ==
    /\ susp.step = "completed"
    /\ susp.ev = susp.id
    /\ susp.id > 0
    /\ susp.sent[0] = "delivered"
    /\ susp.view[0]
    /\ susp.future = susp.id

\* C39: whatever build, rebuild and events did, repeated deliveries of one
\* completion event included, the Suspense has a fallback state or a built
\* completed view.
C39_NeverEmpty ==
    susp.fallback_state \/ (susp.future # None /\ susp.future_state # None)

\* One completion event has been delivered a second time.
C39_Witness ==
    /\ susp.step = "redelivered"
    /\ susp.ev = susp.id

(***************************************************************************)
(* Option and Result views: the state follows the view.                    *)
(***************************************************************************)
\* C34: for an Option view, after build and after every rebuild the state is
\* Some whenever the view is Some, so the unwrap in rebuild, event, layout
\* and draw always finds a state.
C34_SomeViewHasState ==
    (content = "option" /\ cview = "Some") => cstate # NoState

\* An Option built as None was rebuilt as Some, which built its state, and
\* its inner view then received a pointer event.
C34_Witness ==
    /\ content = "option"
    /\ cview = "Some"
    /\ did.built
    /\ cstate # NoState
    /\ pass.kind = "event"
    /\ pass.op \in ButtonOps

\* C35: for a Result view, after build and after every rebuild the state has
\* the variant of the view, so event, layout and draw never take the arm for
\* a view and a state of different variants.
C35_StateVariantIsViewVariant ==
    content = "result" => cstate.variant = cview

\* A Result was rebuilt with the other variant, which built a new state, and
\* a later pass reached its inner view.
C35_Witness ==
    /\ content = "result"
    /\ did.built
    /\ cstate.variant = cview
    /\ cstate.id > 1
    /\ pass.kind \in {"event", "layout", "draw"}

(***************************************************************************)
(* Emission re-entered from a callback.                                    *)
(***************************************************************************)
\* What a closure does when it may call emit on the emitter invoking it:
\* count, subscribe a callback, emit, or subscribe a callback and then emit.
ReentrantBehaviours ==
    {[kind |-> "count", target |-> 0], [kind |-> "emit", target |-> 0]}
        \cup {[kind |-> k, target |-> t] : k \in {"subscribe", "subscribe_emit"},
                                           t \in Callbacks}

\* The state one emission threads through the closures: the map of the
\* emitter, the closures whose RefCell is mutably borrowed, each call with
\* the depth of the emit that made it, and each map taken with its depth.
ReentrantHeap(e) ==
    [subs |-> subs[e], alive |-> cbAlive, running |-> {}, panicked |-> FALSE,
     calls |-> <<>>, takes |-> <<>>]

RECURSIVE ReentrantLoop(_, _, _, _)
RECURSIVE callback_emit(_, _, _, _)

\* CallbackEmitter::emit at depth `level`: take the map, then call the
\* entries that upgrade, in reverse key order.
emit_at(h, beh, level) ==
    ReentrantLoop([h EXCEPT !.subs = {},
                            !.takes = Append(@, [level |-> level, set |-> h.subs])],
                  h.subs, beh, level)

ReentrantLoop(h, pending, beh, level) ==
    IF pending = {} \/ h.panicked
    THEN h
    ELSE LET c == Max(pending)
         IN  ReentrantLoop(IF h.alive[c] THEN callback_emit(h, c, beh, level) ELSE h,
                           pending \ {c}, beh, level)

\* The closure of c runs, its RefCell mutably borrowed for the call.
ClosureRuns(h, c, beh, level) ==
    LET h1 == [h EXCEPT !.running = @ \cup {c},
                        !.calls = Append(@, [cb |-> c, level |-> level])]
        h2 == IF beh[c].kind \in {"subscribe", "subscribe_emit"}
              THEN [h1 EXCEPT !.subs = @ \cup {beh[c].target}]
              ELSE h1
        h3 == IF beh[c].kind \in {"emit", "subscribe_emit"}
              THEN emit_at(h2, beh, level + 1)
              ELSE h2
    IN  [h3 EXCEPT !.running = @ \ {c}]

\* Callback::emit: self.callback.borrow_mut()(event).  borrow_mut panics
\* when the closure is already borrowed, that is, while it is running.
callback_emit(h, c, beh, level) ==
    IF c \in h.running
    THEN [h EXCEPT !.panicked = TRUE]
    ELSE ClosureRuns(h, c, beh, level)

\* CallbackEmitter::emit on emitter e with closures that may emit on e.
EmitReentrant(e, beh) ==
    /\ LET h == emit_at(ReentrantHeap(e), beh, 0)
       IN  /\ subs' = [subs EXCEPT ![e] = h.subs]
           /\ last' = [NoOp EXCEPT !.op = "emit_reentrant", !.sig = e, !.emits = 1,
                                   !.calls = h.calls, !.takes = h.takes,
                                   !.panicked = h.panicked]
    /\ UNCHANGED <<cbAlive, signalVars>>
    /\ Monitor

ReentrantNext ==
    \/ \E e \in Focus, c \in Callbacks : Subscribe(e, c)
    \/ \E c \in Callbacks : DropCallback(c)
    \/ \E e \in Focus, beh \in [Callbacks -> ReentrantBehaviours] : EmitReentrant(e, beh)

SpecReentrant == Init /\ [][ReentrantNext]_vars

\* The calls of callback c made by the emit at depth `level`.
CallsAt(calls, c, level) ==
    Cardinality({i \in 1..Len(calls) : calls[i].cb = c /\ calls[i].level = level})

\* C36: when a callback calls emit on the emitter that is invoking it, the
\* nested emit takes only the callbacks subscribed since the outer emit
\* took the map, the outer emit goes on with its remaining callbacks, and
\* every live callback of the outer map is called exactly once by the outer
\* emit.
C36_NestedEmitIsConfined ==
    [][last'.op = "emit_reentrant" =>
           /\ ~last'.panicked
           /\ \A c \in subs[last'.sig] :
                  cbAlive[c] => CallsAt(last'.calls, c, 0) = 1
           /\ \A i \in 1..Len(last'.calls) :
                  last'.calls[i].level = 0 => last'.calls[i].cb \in subs[last'.sig]]_vars

\* What holds: unless a nested emit reaches a closure that is still
\* running, every live callback of the outer map is called exactly once by
\* the outer emit, and a nested emit takes what was in the map when it was
\* called.
C36_ConfinedUnlessRunning ==
    [][(last'.op = "emit_reentrant" /\ ~last'.panicked) =>
           /\ \A c \in subs[last'.sig] :
                  cbAlive[c] => CallsAt(last'.calls, c, 0) = 1
           /\ \A i \in 1..Len(last'.calls) :
                  last'.calls[i].level = 0 => last'.calls[i].cb \in subs[last'.sig]]_vars

\* A nested emit reached the closure that called it: borrow_mut panicked.
C36_Witness ==
    /\ last.op = "emit_reentrant"
    /\ last.panicked
    /\ \E i \in 1..Len(last.takes) : last.takes[i].level = 1 /\ last.takes[i].set # {}

\* A nested emit called a callback subscribed during the outer emit, and
\* the outer emit finished.
C36_WitnessNested ==
    /\ last.op = "emit_reentrant"
    /\ ~last.panicked
    /\ \E i \in 1..Len(last.calls) : last.calls[i].level = 1

(***************************************************************************)
(* The Modify accessor inside an effect scope.                             *)
(***************************************************************************)
\* C37: Signal::modify reads through the tracking get, so inside an active
\* effect scope it subscribes that scope's callback to the signal, and the
\* write-back made when the accessor is dropped invokes that callback.
C37_ModifyTracksItsScope ==
    [][/\ (last'.op = "modify" /\ Len(scopes) > 0 /\ emAlive[last'.sig]) =>
              /\ scopes[Len(scopes)] \in subs'[last'.sig]
              /\ last'.res = "some" => modify'.scope = scopes[Len(scopes)]
       /\ (/\ last'.op = "modify_drop"
           /\ last'.res = "ok"
           /\ modify.scope # 0
           /\ modify.scope \in subs[modify.sig]
           /\ cbAlive[modify.scope]
           /\ emAlive[modify.sig]) =>
              \/ Count(last'.log, modify.scope) = 1
              \/ modify.scope \in last'.skipped]_vars

\* An accessor made inside a scope was dropped, and the write-back invoked
\* the callback of that scope.
C37_Witness ==
    /\ last.op = "modify_drop"
    /\ last.cb # 0
    /\ last.res = "ok"
    /\ Count(last.log, last.cb) = 1

(***************************************************************************)
(* Layout of a padded view: Pad and Button.                                *)
(***************************************************************************)
\* A variant of translate that composes the translation with the transform.
TranslateComposes(s, v) == [s EXCEPT !.transform = @ + v]

\* ViewState::translate: the transform becomes the translation by v.
translate(s, v) == [s EXCEPT !.transform = v]

\* Pad::layout and Button::layout at Pod p, inside a layout pass from the
\* root: the content Pod is laid out, then its state is translated by the
\* offset of the padding.
pad_layout(v, p, pad, in) ==
    LET child == CHOOSE c \in Children(p) : TRUE
    IN  [pod_layout(v, 1, in) EXCEPT ![child] = translate(@, pad)]

PadLayout(p, pad) ==
    TreeStep("pad_layout", [actor |-> p, op |-> "none", when |-> "post", arg |-> pad],
             pad_layout(vs, p, pad, [actor |-> p, op |-> "none", when |-> "post", arg |-> pad]))

PadNext ==
    \/ \E p \in 1..(NumNodes - 1), pad \in 0..MaxPad : PadLayout(p, pad)
    \/ \E in \in ButtonInputs : RootEvent(in)
    \/ \E in \in IdleInputs : RootDraw(in)

SpecPad == Init /\ [][PadNext]_vars

PadChild(p) == CHOOSE c \in Children(p) : TRUE

\* C38: translate replaces the transform by the translation, it does not
\* compose: after a Pad or Button layout pass the content's transform is the
\* padding offset, and a repeated pass with the same padding leaves it as
\* the first pass set it.
C38_TranslateReplaces ==
    [][pass'.kind = "pad_layout" =>
           /\ vs'[PadChild(pass'.actor)].transform = pass'.arg
           /\ pass'.again =>
                  vs'[PadChild(pass'.actor)].transform = vs[PadChild(pass.actor)].transform]_vars

\* A layout pass with a non-zero padding has been repeated and the content
\* still has the transform of the first pass.
C38_Witness ==
    /\ pass.kind = "pad_layout"
    /\ pass.again
    /\ pass.arg > 0
    /\ vs[PadChild(pass.actor)].transform = pass.arg

(***************************************************************************)
(* A rebuild requested while an event is handled.                          *)
(***************************************************************************)
\* C40: when a Button handles an unhandled press inside its rect it calls
\* request_rebuild, and when the event call on the root Pod returns the TREE
\* bit is in the update set of the root context and of every Pod between;
\* the next rebuild pass clears the bit on every Pod, each Pod clearing its
\* own, and leaves the root context's bit to the caller.
C40_RebuildRequestReachesRoot ==
    [][/\ (pass'.kind = "event" /\ pass'.on_press) =>
              /\ TREE \in vs'[0].update
              /\ \A n \in {pass'.actor} \cup Ancestors(pass'.actor) : TREE \in vs'[n].update
       /\ (pass'.kind = "event" /\ ~pass'.on_press) =>
              \A n \in 0..NumNodes : TREE \in vs'[n].update <=> TREE \in vs[n].update
       /\ pass'.kind = "rebuild" =>
              /\ \A n \in Nodes : TREE \notin vs'[n].update
              /\ TREE \in vs'[0].update <=> TREE \in vs[0].update]_vars

\* A press on a Button at least two Pods below the root Pod has returned
\* with the rebuild request on every Pod above it and on the root context.
C40_Witness ==
    /\ pass.kind = "event"
    /\ pass.on_press
    /\ Depth(pass.actor) >= 3
    /\ \A n \in 0..NumNodes : TREE \in vs[n].update

\* The rebuild pass after such a press has cleared the bit on every Pod.
C40_WitnessRebuilt ==
    /\ pass.kind = "rebuild"
    /\ TREE \in vs[0].update
    /\ \A n \in Nodes : TREE \notin vs[n].update
    /\ vs[NumNodes].active

====
